---------------------------- MODULE Spec2Model ----------------------------
(***************************************************************************)
(* Model of the tool-dispatch loop of the S3 function-calling notebook     *)
(* (src/unnamed/part_000): the tool registry `functions`, the handler      *)
(* table `available_functions`, chat_completion_request and                *)
(* run_conversation.  The completion service is external: its answers are  *)
(* drawn from small sets.  The handlers are the S3 helpers of the notebook *)
(* and run against an object store and a working directory; the S3         *)
(* service and the web sites may fail.  Further sections model the helpers *)
(* called on their own (SpecS3, SpecUpload) and the web-search notebook    *)
(* (SpecWeb).                                                              *)
(***************************************************************************)
EXTENDS Naturals, Sequences, FiniteSets, TLC

(***************************************************************************)
(* Bounds of the model.                                                    *)
(***************************************************************************)
\* number of run_conversation calls in one behaviour
MaxCalls == 2
\* largest number of tool invocations in one completion response
MaxToolCalls == 2

(***************************************************************************)
(* State.                                                                  *)
(***************************************************************************)
VARIABLES
    functions,            \* the module-level list of tool specs
    available_functions,  \* the module-level handler table
    pc,                   \* where the current run_conversation call stands
    user_input, topic,    \* its arguments
    messages,             \* its conversation
    response_message,     \* message of the first completion response
    function_name, function_args, function_response,
    second_response,      \* message of the second completion response
    final_message,        \* the value returned, once pc = "returned"
    error,                \* the exception raised, once pc = "raised"
    requests,             \* completion requests issued by this call, in order
    trace,                \* external calls and returns of this call, in order
    handlerLog,           \* handler executions of this call: function, kwargs
    nCalls,               \* run_conversation calls started so far
    sideEffects,          \* handler executions over all calls
    toolReturns,          \* calls that returned through the tool path
    lateFailures,         \* calls that failed after their handler was entered
    lastKey,              \* input and invocation of the last handler execution
    repeated              \* the last execution repeats the one before it

\* the object store behind s3_client and the call of an S3 helper under study
VARIABLES
    s3_buckets,           \* the buckets of the account, as list_buckets lists them
    s3_objects,           \* bucket name -> the keys stored in it
    s3_pc,                \* "off", "idle" or "done"
    s3_call,              \* the helper called and its arguments
    s3_result,            \* what the helper returned or raised
    s3_requests           \* the s3_client requests the helper made, in order

\* one call of upload_file: the local files, the uploads and its position
VARIABLES
    up_pc,                \* "off", "idle", "fetch", "upload", "returned", "raised"
    up_call,              \* the arguments of the call
    up_source,            \* the local variable source
    up_files,             \* local file name -> content
    up_uploaded,          \* the objects put by s3_client.upload_file
    up_trace,             \* urlretrieve and upload_file calls, in order
    up_result             \* what upload_file returned or raised

\* the web-search notebook: search, the loop over search_items and
\* get_search_results
VARIABLES
    web_pc,               \* position in the notebook's flow
    web_call,             \* the arguments of search
    web_response,         \* the HTTP response search received
    search_items,         \* the value search returned
    web_idx,              \* idx of the loop of get_search_results
    web_content,          \* web_content of the current item
    results_list,         \* results_list of get_search_results
    web_log,              \* page requests and summarization calls, in order
    web_error             \* the exception that escaped, if any

s3vars == << s3_buckets, s3_objects, s3_pc, s3_call, s3_result, s3_requests >>

upvars == << up_pc, up_call, up_source, up_files, up_uploaded, up_trace,
            up_result >>

webvars == << web_pc, web_call, web_response, search_items, web_idx,
             web_content, results_list, web_log, web_error >>

runvars == << functions, available_functions, pc, user_input, topic, messages,
              response_message, function_name, function_args,
              function_response, second_response, final_message, error,
              requests, trace, handlerLog, nCalls, sideEffects, toolReturns,
              lateFailures, lastKey, repeated >>

vars == << runvars, s3vars, upvars, webvars >>

\* module-level state that run_conversation only reads
globals == << functions, available_functions, s3_buckets, s3_pc, s3_call,
              s3_result, up_pc, up_call, up_source, up_trace, up_result,
              webvars >>
\* what the handlers called by run_conversation read and write
world == << s3_objects, s3_requests, up_files, up_uploaded >>
history == << nCalls, sideEffects, toolReturns, lateFailures, lastKey, repeated >>

(***************************************************************************)
(* Values.                                                                 *)
(***************************************************************************)
\* Python's None where a string is expected (message content, return value)
None == "<None>"
\* an optional argument that was not passed (functions=None) / was passed
NotGiven == {}
Given(x) == {x}
ValueOf(opt) == CHOOSE x \in opt : TRUE

GPT_MODEL == "gpt-3.5-turbo"
DefaultTopic == "S3 bucket functions."

\* inputs of run_conversation
UserInputs == {"list my S3 buckets", "what is the weather today"}
Topics == {DefaultTopic, "S3"}

(***************************************************************************)
(* The registry: tool specs and handler table.                             *)
(***************************************************************************)
ToolSpec(name, description, parameters) ==
    [type |-> "function",
     function |-> [name |-> name,
                   description |-> description,
                   parameters |-> parameters]]

\* one entry of "properties"
Property(type, description) == [type |-> type, description |-> description]

\* lines 136-213; the empty dict is the empty function
FunctionsDef ==
    << ToolSpec("list_buckets", "List all available S3 buckets",
           [type |-> "object", properties |-> <<>>]),
       ToolSpec("list_objects",
           "List the objects or files inside a given S3 bucket",
           [type |-> "object",
            properties |->
                [bucket |-> Property("string", "The name of the S3 bucket"),
                 prefix |-> Property("string", "The folder path in the S3 bucket")],
            required |-> <<"bucket">>]),
       ToolSpec("download_file",
           "Download a specific file from an S3 bucket to a local distribution folder.",
           [type |-> "object",
            properties |->
                [bucket |-> Property("string", "The name of the S3 bucket"),
                 key |-> Property("string", "The path to the file inside the bucket"),
                 directory |-> Property("string",
                     "The local destination directory to download the file, should be specificed by the user.")],
            required |-> <<"bucket", "key", "directory">>]),
       ToolSpec("upload_file", "Upload a file to an S3 bucket",
           [type |-> "object",
            properties |->
                [source |-> Property("string", "The local source path or remote URL"),
                 bucket |-> Property("string", "The name of the S3 bucket"),
                 key |-> Property("string", "The path to the file inside the bucket"),
                 is_remote_url |-> Property("boolean",
                     "Is the provided source a URL (True) or local path (False)")],
            required |-> <<"source", "bucket", "key", "is_remote_url">>]),
       ToolSpec("search_s3_objects",
           "Search for a specific file name inside an S3 bucket",
           [type |-> "object",
            properties |->
                [search_name |-> Property("string",
                     "The name of the file you want to search for"),
                 bucket |-> Property("string", "The name of the S3 bucket"),
                 prefix |-> Property("string", "The folder path in the S3 bucket"),
                 exact_match |-> Property("boolean",
                     "Set exact_match to True if the search should match the exact file name. Set exact_match to False to compare part of the file name string (the file contains)")],
            required |-> <<"search_name">>]) >>

\* variant: a declared tool was not entered in the handler table
AvailableFunctionsPartial ==
    [list_buckets |-> "def list_buckets",
     list_objects |-> "def list_objects",
     download_file |-> "def download_file",
     upload_file |-> "def upload_file"]

\* name -> the Python function registered under it
AvailableFunctionsDef ==
    [list_buckets |-> "def list_buckets",
     list_objects |-> "def list_objects",
     download_file |-> "def download_file",
     upload_file |-> "def upload_file",
     search_s3_objects |-> "def search_s3_objects"]

\* the def lines of the handlers: parameters without and with a default
Signature(fn) ==
    CASE fn = "def list_buckets" ->
           [required |-> {}, optional |-> {}]
      [] fn = "def list_objects" ->
           [required |-> {"bucket"}, optional |-> {"prefix"}]
      [] fn = "def download_file" ->
           [required |-> {"bucket", "key", "directory"}, optional |-> {}]
      [] fn = "def upload_file" ->
           [required |-> {"source", "bucket", "key"},
            optional |-> {"is_remote_url"}]
      [] fn = "def search_s3_objects" ->
           [required |-> {"search_name"},
            optional |-> {"bucket", "prefix", "exact_match"}]

(***************************************************************************)
(* json.loads on the argument strings the completion service may send.     *)
(***************************************************************************)
ArgStrings ==
    { "{}",
      "{\"bucket\": \"b1\"}",
      "{\"bucket\": \"b1\", \"prefix\": \"d/\"}",
      "{\"bucket\": \"b1\", \"key\": \"d/a\", \"directory\": \".\"}",
      "{\"source\": \"a\", \"bucket\": \"b1\", \"key\": \"ab\"}",
      "{\"source\": \"h:/a\", \"bucket\": \"b1\", \"key\": \"ab\", \"is_remote_url\": true}",
      "{\"search_name\": \"a\"}",
      "[]",
      "{\"bucket\": " }

\* kind is the Python type of the decoded value, or the exception raised;
\* the strings the handlers inspect are decoded to their characters
json_loads(s) ==
    CASE s = "{}" -> [kind |-> "dict", val |-> <<>>]
      [] s = "{\"bucket\": \"b1\"}" ->
           [kind |-> "dict", val |-> [bucket |-> "b1"]]
      [] s = "{\"bucket\": \"b1\", \"prefix\": \"d/\"}" ->
           [kind |-> "dict", val |-> [bucket |-> "b1", prefix |-> <<"d", "/">>]]
      [] s = "{\"bucket\": \"b1\", \"key\": \"d/a\", \"directory\": \".\"}" ->
           [kind |-> "dict",
            val |-> [bucket |-> "b1", key |-> <<"d", "/", "a">>,
                     directory |-> <<".">>]]
      [] s = "{\"source\": \"a\", \"bucket\": \"b1\", \"key\": \"ab\"}" ->
           [kind |-> "dict",
            val |-> [source |-> <<"a">>, bucket |-> "b1",
                     key |-> <<"a", "b">>]]
      [] s = "{\"source\": \"h:/a\", \"bucket\": \"b1\", \"key\": \"ab\", \"is_remote_url\": true}" ->
           [kind |-> "dict",
            val |-> [source |-> <<"h", ":", "/", "a">>, bucket |-> "b1",
                     key |-> <<"a", "b">>, is_remote_url |-> TRUE]]
      [] s = "{\"search_name\": \"a\"}" ->
           [kind |-> "dict", val |-> [search_name |-> <<"a">>]]
      [] s = "[]" -> [kind |-> "list", val |-> <<>>]
      [] s = "{\"bucket\": " -> [kind |-> "JSONDecodeError", val |-> <<>>]

\* f(**args): args must be a mapping whose keys fit the def line of f
CallBinds(fn, args) ==
    /\ args.kind = "dict"
    /\ Signature(fn).required \subseteq DOMAIN args.val
    /\ DOMAIN args.val \subseteq
           Signature(fn).required \cup Signature(fn).optional

(***************************************************************************)
(* What the completion service may answer.                                 *)
(***************************************************************************)
Texts == {"Here is the result.", "Please clarify."}

ToolCall(id, name, arguments) ==
    [id |-> id, type |-> "function",
     function |-> [name |-> name, arguments |-> arguments]]

\* the first invocation of a response: every tool with arguments its def line
\* accepts, and the ways the dispatch can fail
FirstToolCalls ==
    {ToolCall("call_1", p[1], p[2]) : p \in
       { <<"list_buckets", "{}">>,
         <<"list_buckets", "{\"bucket\": \"b1\"}">>,
         <<"list_buckets", "{\"bucket\": ">>,
         <<"list_objects", "{\"bucket\": \"b1\"}">>,
         <<"list_objects", "{\"bucket\": \"b1\", \"prefix\": \"d/\"}">>,
         <<"list_objects", "{}">>,
         <<"list_objects", "{\"bucket\": ">>,
         <<"download_file", "{\"bucket\": \"b1\", \"key\": \"d/a\", \"directory\": \".\"}">>,
         <<"upload_file", "{\"source\": \"a\", \"bucket\": \"b1\", \"key\": \"ab\"}">>,
         <<"upload_file", "{\"source\": \"h:/a\", \"bucket\": \"b1\", \"key\": \"ab\", \"is_remote_url\": true}">>,
         <<"search_s3_objects", "{\"search_name\": \"a\"}">>,
         <<"search_s3_objects", "[]">>,
         <<"delete_bucket", "{}">>,
         <<"delete_bucket", "{\"bucket\": ">> }}
\* a further invocation of the same response: a known or an unknown tool
NextToolCalls(k) ==
    {ToolCall(IF k = 2 THEN "call_2" ELSE "call_n", n, "{}") :
        n \in {"list_buckets", "delete_bucket"}}

RECURSIVE ToolCallLists(_)
ToolCallLists(n) ==
    IF n = 0 THEN {<<>>}
    ELSE IF n = 1 THEN {<<c>> : c \in FirstToolCalls}
    ELSE {Append(l, c) : l \in ToolCallLists(n - 1), c \in NextToolCalls(n)}

Message(content, tool_calls) ==
    [role |-> "assistant", content |-> content, tool_calls |-> tool_calls]

\* a response carries tool invocations only when the request carried tools
ServiceResponses(request) ==
    {Message(c, <<>>) : c \in Texts \cup {None}}
    \cup (IF "tools" \in DOMAIN request
          THEN {Message(c, l) : c \in {None, "Please clarify."},
                                l \in UNION {ToolCallLists(n) : n \in 1..MaxToolCalls}}
          ELSE {})

(***************************************************************************)
(* chat_completion_request and the expressions of run_conversation.        *)
(***************************************************************************)
DefaultFunctionCall == "auto"

\* variant: the tool choice is forced whenever tools are sent
chat_completion_request_forced(msgs, functions_arg, function_call, model_name) ==
    IF functions_arg # NotGiven
    THEN [model |-> model_name, messages |-> msgs,
          tools |-> ValueOf(functions_arg), tool_choice |-> "required"]
    ELSE [model |-> model_name, messages |-> msgs]

chat_completion_request(msgs, functions_arg, function_call, model_name) ==
    IF functions_arg # NotGiven
    THEN [model |-> model_name, messages |-> msgs,
          tools |-> ValueOf(functions_arg), tool_choice |-> function_call]
    ELSE [model |-> model_name, messages |-> msgs]

system_message(t) ==
    "Don't make assumptions about what values to plug into functions. Ask for clarification if a user request is ambiguous. If the user ask question not related to "
    \o t \o " response your scope is " \o t \o " only."

InitialMessages(u, t) ==
    << [role |-> "system", content |-> system_message(t)],
       [role |-> "user", content |-> u] >>

WantsTool(msg) == msg.tool_calls # <<>>

\* variant: dispatch on the last invocation of the response
LastToolCall(msg) == msg.tool_calls[Len(msg.tool_calls)]

SelectedToolCall(msg) == msg.tool_calls[1]

\* variant: the tool turn refers to the last invocation of the response
ToolTurnLastId(out, msg) ==
    [role |-> "tool", content |-> out,
     tool_call_id |-> LastToolCall(msg).id]

ToolTurn(out, msg) ==
    [role |-> "tool", content |-> out,
     tool_call_id |-> SelectedToolCall(msg).id]

\* variant: the assistant's tool-selection turn is not appended
AppendToolTurnOnly(msgs, msg, tool_turn) == msgs \o <<tool_turn>>

AppendTurns(msgs, msg, tool_turn) == msgs \o <<msg, tool_turn>>

\* variant: an absent content is returned as the empty string
FinalMessageDirectOrEmpty(msg) == IF msg.content = None THEN "" ELSE msg.content

FinalMessageDirect(msg) == msg.content

\* variant: the handler's output is returned instead of the summary
FinalMessageFromHandler(resp) == function_response

FinalMessageTool(resp) == resp.content

(***************************************************************************)
(* The S3 helpers: list_buckets, list_objects, search_s3_objects.          *)
(* Strings that the helpers inspect (keys, prefixes, search names) are     *)
(* sequences of characters.                                                *)
(***************************************************************************)
\* objects one list_objects_v2 response holds at most (1000 for S3, scaled)
PageSize == 2

\* all keys an object can have, in the order S3 lists them (byte order)
KeyOrder ==
    << <<"A">>, <<"a">>, <<"a", "b">>, <<"d", "/", "a">>, <<"d", "/", "b">> >>
AllKeys == {KeyOrder[i] : i \in DOMAIN KeyOrder}
BucketLists == { <<>>, <<"b1">>, <<"b1", "b2">> }
BucketArgs == {"b1", "b2"}
Prefixes == { <<>>, <<"d", "/">> }
SearchNames == { <<"a">>, <<"A">>, <<"b">>, <<"d", "/", "a">> }

\* str.lower
LowerChar(c) == CASE c = "A" -> "a" [] c = "B" -> "b" [] c = "D" -> "d"
                  [] OTHER -> c
str_lower(str) == [i \in 1..Len(str) |-> LowerChar(str[i])]

\* sub in str
str_contains(sub, str) ==
    \E i \in 0..Len(str) :
        /\ i + Len(sub) <= Len(str)
        /\ SubSeq(str, i + 1, i + Len(sub)) = sub

\* S3's Prefix filter
StartsWith(str, pre) ==
    /\ Len(pre) <= Len(str)
    /\ SubSeq(str, 1, Len(pre)) = pre

\* os.path.basename: what follows the last "/"
RECURSIVE basename(_)
basename(path) ==
    IF \E i \in DOMAIN path : path[i] = "/"
    THEN basename(Tail(path))
    ELSE path

\* json.dumps / json.loads of a document: the text is represented by the
\* value it encodes, datetimes having gone through datetime_converter
json_dumps(v) == [json |-> v]
json_loads_text(text) == text.json

LastModifiedValue == [datetime |-> "2023-06-01 10:00:00"]
datetime_converter(obj) ==
    CASE obj = LastModifiedValue -> "2023-06-01T10:00:00"

\* s3_client.list_buckets()
client_list_buckets ==
    [Buckets |-> [i \in 1..Len(s3_buckets) |->
                     [Name |-> s3_buckets[i],
                      CreationDate |-> LastModifiedValue]]]

\* s3_client.list_objects_v2(Bucket=bucket, Prefix=prefix): one page, without
\* a Contents entry when no key is under the prefix
client_list_objects_v2(bucket, prefix) ==
    IF \A i \in DOMAIN s3_buckets : s3_buckets[i] # bucket
    THEN [raised |-> "NoSuchBucket"]
    ELSE LET Under(k) == k \in s3_objects[bucket] /\ StartsWith(k, prefix)
             under == SelectSeq(KeyOrder, Under)
             page == SubSeq(under, 1,
                            IF Len(under) < PageSize THEN Len(under) ELSE PageSize)
         IN IF page = <<>>
            THEN [KeyCount |-> Len(page), IsTruncated |-> FALSE]
            ELSE [KeyCount |-> Len(page),
                  IsTruncated |-> Len(under) > PageSize,
                  Contents |-> [i \in 1..Len(page) |->
                                   [Key |-> page[i],
                                    LastModified |-> LastModifiedValue]]]

list_buckets ==
    LET response == client_list_buckets
    IN json_dumps([i \in 1..Len(response.Buckets) |->
                      [Name |-> response.Buckets[i].Name,
                       CreationDate |->
                           datetime_converter(response.Buckets[i].CreationDate)]])

list_objects(bucket, prefix) ==
    LET response == client_list_objects_v2(bucket, prefix)
        contents == IF "Contents" \in DOMAIN response
                    THEN response.Contents ELSE <<>>
    IN IF "raised" \in DOMAIN response
       THEN response
       ELSE json_dumps([i \in 1..Len(contents) |->
                           [Key |-> contents[i].Key,
                            LastModified |->
                                datetime_converter(contents[i].LastModified)]])

\* lines 275-279: the buckets search_s3_objects goes through
SearchBuckets(bucket) ==
    IF bucket = None
    THEN LET buckets_response == json_loads_text(list_buckets)
         IN [i \in 1..Len(buckets_response) |-> buckets_response[i].Name]
    ELSE << bucket >>

\* lines 284-288: the matching objects of one bucket's listing
BucketResults(listing, name, exact_match) ==
    LET objects_response == json_loads_text(listing)
        Exact(obj) == name = str_lower(obj.Key)
        Part(obj) == str_contains(name, str_lower(obj.Key))
    IN IF exact_match
       THEN SelectSeq(objects_response, Exact)
       ELSE SelectSeq(objects_response, Part)

\* variant: the results carry the bucket argument, not the bucket listed
RECURSIVE SearchLoopTagArg(_, _, _, _, _, _)
SearchLoopTagArg(buckets, n, bucket, name, prefix, exact_match) ==
    IF n > Len(buckets)
    THEN << >>
    ELSE LET bucket_name == buckets[n]
             listing == list_objects(bucket_name, prefix)
         IN IF "raised" \in DOMAIN listing
            THEN << listing >>
            ELSE LET bucket_results == BucketResults(listing, name, exact_match)
                     rest == SearchLoopTagArg(buckets, n + 1, bucket, name,
                                              prefix, exact_match)
                 IN [i \in 1..Len(bucket_results) |->
                        [Bucket |-> bucket, Object |-> bucket_results[i]]]
                    \o rest

\* lines 281-291: the loop over the buckets from the n-th on; an exception of
\* list_objects ends it (the exception is the last element)
RECURSIVE SearchLoop(_, _, _, _, _, _)
SearchLoop(buckets, n, bucket, name, prefix, exact_match) ==
    IF n > Len(buckets)
    THEN << >>
    ELSE LET bucket_name == buckets[n]
             listing == list_objects(bucket_name, prefix)
         IN IF "raised" \in DOMAIN listing
            THEN << listing >>
            ELSE LET bucket_results == BucketResults(listing, name, exact_match)
                     rest == SearchLoop(buckets, n + 1, bucket, name, prefix,
                                        exact_match)
                 IN [i \in 1..Len(bucket_results) |->
                        [Bucket |-> bucket_name, Object |-> bucket_results[i]]]
                    \o rest

search_s3_objects(search_name, bucket, prefix, exact_match) ==
    LET name == str_lower(search_name)
        buckets == SearchBuckets(bucket)
        results == SearchLoop(buckets, 1, bucket, name, prefix, exact_match)
    IN IF results # <<>> /\ "raised" \in DOMAIN results[Len(results)]
       THEN results[Len(results)]
       ELSE json_dumps(results)

\* the s3_client requests of one search_s3_objects call that did not raise
SearchRequests(bucket, prefix) ==
    LET buckets == SearchBuckets(bucket)
    IN (IF bucket = None
        THEN << [op |-> "list_buckets", Bucket |-> None, Prefix |-> <<>>] >>
        ELSE << >>)
       \o [i \in 1..Len(buckets) |->
              [op |-> "list_objects_v2", Bucket |-> buckets[i],
               Prefix |-> prefix]]

S3Call(fn, search_name, bucket, prefix, exact_match) ==
    [fn |-> fn, search_name |-> search_name, bucket |-> bucket,
     prefix |-> prefix, exact_match |-> exact_match]

(***************************************************************************)
(* The local files, and the helpers that move files between them and the   *)
(* store: download_file and upload_file.  Whether a web site serves a URL  *)
(* and whether the S3 service answers is the environment's choice.         *)
(***************************************************************************)
LocalNames == { <<"a">>, <<"d", "/", "a">> }
Directories == { <<".">>, <<"d">> }

\* the content of a local file that was there from the start, of a URL, and
\* of an object that was in the store from the start
LocalContent(name) == [origin |-> "local", name |-> name]
Served(url) == [origin |-> "remote", name |-> url]
StoredContent(bucket, key) == [origin |-> bucket, name |-> key]

\* the file a path names: "./x" is x in the working directory
FsPath(path) ==
    IF StartsWith(path, <<".", "/">>) THEN SubSeq(path, 3, Len(path)) ELSE path

\* a directory exists when it is the working directory or holds a file
DirExists(directory, files) ==
    \/ directory = <<".">>
    \/ \E f \in DOMAIN files : StartsWith(f, directory \o <<"/">>)

\* os.path.join
path_join(a, b) ==
    IF b # <<>> /\ b[1] = "/" THEN b
    ELSE IF a = <<>> \/ a[Len(a)] = "/" THEN a \o b
    ELSE a \o <<"/">> \o b

\* os.path.dirname of a relative path, "." standing for the empty one
RECURSIVE dirname(_)
dirname(path) ==
    IF path = <<>> THEN <<".">>
    ELSE IF path[Len(path)] = "/"
         THEN (IF Len(path) = 1 THEN path ELSE SubSeq(path, 1, Len(path) - 1))
         ELSE dirname(SubSeq(path, 1, Len(path) - 1))

\* the temporary file urlretrieve writes when it is given no file name
TempFile == <<"/", "t", "m", "p">>

\* urlretrieve accepts a source that has a scheme
IsUrl(source) == StartsWith(source, <<"h", ":">>)

\* what the web site does with a request, what the S3 service does
Sites == {"serves", "short", "unreachable"}
Services == {"up", "down"}

\* urllib.request.urlretrieve(url, filename): the exception raised ("" when
\* it returns) and the local files afterwards.  The body is written before a
\* short body is detected; without a file name it goes to a temporary file.
urlretrieve(url, filename, files, site) ==
    LET target == IF filename # <<>> THEN FsPath(filename) ELSE TempFile
        written == (target :> Served(url)) @@ files
    IN IF ~IsUrl(url)
       THEN [raised |-> "ValueError", files |-> files]
       ELSE IF site = "unreachable"
            THEN [raised |-> "URLError", files |-> files]
            ELSE IF site = "short"
                 THEN [raised |-> "ContentTooShortError", files |-> written]
                 ELSE [raised |-> "", files |-> written]

\* the body of an object: what was last uploaded under its key, or what the
\* store held from the start
ObjectBody(bucket, key, uploaded) ==
    IF \E u \in uploaded : u.Bucket = bucket /\ u.Key = key
    THEN (CHOOSE u \in uploaded : u.Bucket = bucket /\ u.Key = key).Body
    ELSE StoredContent(bucket, key)

HasBucket(bucket) == \E i \in DOMAIN s3_buckets : s3_buckets[i] = bucket

\* s3_client.upload_file(Filename, Bucket, Key): the exception raised and
\* the store afterwards
client_upload_file(filename, bucket, key, files, objects, uploaded, service) ==
    IF FsPath(filename) \notin DOMAIN files
    THEN [raised |-> "FileNotFoundError", objects |-> objects,
          uploaded |-> uploaded]
    ELSE IF service = "down" \/ ~HasBucket(bucket)
         THEN [raised |-> IF service = "down" THEN "EndpointConnectionError"
                          ELSE "S3UploadFailedError",
               objects |-> objects, uploaded |-> uploaded]
         ELSE [raised |-> "",
               objects |-> [objects EXCEPT ![bucket] = @ \cup {key}],
               uploaded |->
                   {u \in uploaded : ~(u.Bucket = bucket /\ u.Key = key)}
                   \cup {[Bucket |-> bucket, Key |-> key,
                          Body |-> files[FsPath(filename)]]}]

\* s3_client.download_file(Bucket, Key, Filename): the exception raised and
\* the local files afterwards
client_download_file(bucket, key, filename, files, objects, uploaded, service) ==
    IF service = "down"
    THEN [raised |-> "EndpointConnectionError", files |-> files]
    ELSE IF ~HasBucket(bucket) \/ key \notin objects[bucket]
         THEN [raised |-> "ClientError", files |-> files]
         ELSE IF ~DirExists(dirname(FsPath(filename)), files)
              THEN [raised |-> "FileNotFoundError", files |-> files]
              ELSE [raised |-> "",
                    files |-> (FsPath(filename) :>
                                   ObjectBody(bucket, key, uploaded)) @@ files]

\* a call of s3_client.download_file or s3_client.upload_file
TransferRequest(op, filename, bucket, key) ==
    [op |-> op, Bucket |-> bucket, Key |-> key, Filename |-> filename]

\* lines 253-261
download_file(bucket, key, directory, service) ==
    LET filename == basename(key)
        destination == path_join(directory, filename)
        got == client_download_file(bucket, key, destination, up_files,
                                    s3_objects, up_uploaded, service)
    IN [raised |-> got.raised,
        doc |-> json_dumps([status |-> "success", bucket |-> bucket,
                            key |-> key, destination |-> destination]),
        requests |-> << TransferRequest("download_file", destination, bucket, key) >>,
        objects |-> s3_objects, files |-> got.files, uploaded |-> up_uploaded]

\* lines 263-270, from the call to the return or the exception
upload_file(source, bucket, key, is_remote_url, site, service) ==
    LET file_name == basename(source)
        fetched == IF is_remote_url
                   THEN urlretrieve(source, file_name, up_files, site)
                   ELSE [raised |-> "", files |-> up_files]
        local == IF is_remote_url THEN file_name ELSE source
        put == client_upload_file(local, bucket, key, fetched.files,
                                  s3_objects, up_uploaded, service)
    IN IF fetched.raised # ""
       THEN [raised |-> fetched.raised, doc |-> json_dumps(<<>>),
             requests |-> << >>, objects |-> s3_objects,
             files |-> fetched.files, uploaded |-> up_uploaded]
       ELSE [raised |-> put.raised,
             doc |-> json_dumps([status |-> "success", source |-> local,
                                 bucket |-> bucket, key |-> key]),
             requests |-> << TransferRequest("upload_file", local, bucket, key) >>,
             objects |-> put.objects, files |-> fetched.files,
             uploaded |-> put.uploaded]

(***************************************************************************)
(* The text json.dumps writes for the documents of the helpers.            *)
(***************************************************************************)
\* a Python str from its characters
RECURSIVE str(_)
str(chars) == IF chars = <<>> THEN "" ELSE chars[1] \o str(Tail(chars))

RECURSIVE join(_, _)
join(strs, sep) ==
    IF strs = <<>> THEN ""
    ELSE IF Len(strs) = 1 THEN strs[1]
         ELSE strs[1] \o sep \o join(Tail(strs), sep)

quote(s) == "\"" \o s \o "\""
json_object(pairs) ==
    "{" \o join([i \in DOMAIN pairs |->
                    quote(pairs[i][1]) \o ": " \o pairs[i][2]], ", ") \o "}"

text_bucket(b) ==
    json_object(<< <<"Name", quote(b.Name)>>,
                   <<"CreationDate", quote(b.CreationDate)>> >>)
text_object(o) ==
    json_object(<< <<"Key", quote(str(o.Key))>>,
                   <<"LastModified", quote(o.LastModified)>> >>)
text_result(r) ==
    json_object(<< <<"Bucket", quote(r.Bucket)>>,
                   <<"Object", text_object(r.Object)>> >>)

\* the text of the document fn returns
json_text(fn, doc) ==
    LET v == doc.json
    IN CASE fn = "def list_buckets" ->
              "[" \o join([i \in DOMAIN v |-> text_bucket(v[i])], ", ") \o "]"
         [] fn = "def list_objects" ->
              "[" \o join([i \in DOMAIN v |-> text_object(v[i])], ", ") \o "]"
         [] fn = "def search_s3_objects" ->
              "[" \o join([i \in DOMAIN v |-> text_result(v[i])], ", ") \o "]"
         [] fn = "def download_file" ->
              json_object(<< <<"status", quote(v.status)>>,
                             <<"bucket", quote(v.bucket)>>,
                             <<"key", quote(str(v.key))>>,
                             <<"destination", quote(str(v.destination))>> >>)
         [] fn = "def upload_file" ->
              json_object(<< <<"status", quote(v.status)>>,
                             <<"source", quote(str(v.source))>>,
                             <<"bucket", quote(v.bucket)>>,
                             <<"key", quote(str(v.key))>> >>)

(***************************************************************************)
(* A handler called by run_conversation (line 397) with the keyword        *)
(* arguments decoded from the invocation.                                  *)
(***************************************************************************)
\* the value of a parameter: the keyword argument, or the default
Arg(kwargs, name, default) ==
    IF name \in DOMAIN kwargs THEN kwargs[name] ELSE default

\* a helper that only reads the store, called while the service is up or
\* down: what it raised or returned, and the requests it made
Reading(service, doc, reqs) ==
    [raised |-> IF service = "down" THEN "EndpointConnectionError"
                ELSE IF "raised" \in DOMAIN doc THEN doc.raised ELSE "",
     doc |-> doc,
     requests |-> IF service = "down" THEN SubSeq(reqs, 1, 1) ELSE reqs,
     objects |-> s3_objects, files |-> up_files, uploaded |-> up_uploaded]

\* the call of available_functions[name] with kwargs under the environment's
\* choices: the exception or the document returned, and the store and the
\* local files afterwards
CallHandler(fn, kwargs, site, service) ==
    LET bucket == Arg(kwargs, "bucket", None)
        prefix == Arg(kwargs, "prefix", <<>>)
    IN CASE fn = "def list_buckets" ->
              Reading(service, list_buckets,
                  << [op |-> "list_buckets", Bucket |-> None,
                      Prefix |-> <<>>] >>)
         [] fn = "def list_objects" ->
              Reading(service, list_objects(bucket, prefix),
                  << [op |-> "list_objects_v2", Bucket |-> bucket,
                      Prefix |-> prefix] >>)
         [] fn = "def search_s3_objects" ->
              Reading(service,
                  search_s3_objects(kwargs.search_name, bucket, prefix,
                                    Arg(kwargs, "exact_match", TRUE)),
                  SearchRequests(bucket, prefix))
         [] fn = "def download_file" ->
              download_file(kwargs.bucket, kwargs.key, kwargs.directory,
                            service)
         [] fn = "def upload_file" ->
              upload_file(kwargs.source, kwargs.bucket, kwargs.key,
                          Arg(kwargs, "is_remote_url", FALSE), site, service)

\* the exceptions a handler can raise
HandlerExceptions ==
    {"EndpointConnectionError", "NoSuchBucket", "ClientError",
     "FileNotFoundError", "S3UploadFailedError", "ValueError", "URLError",
     "ContentTooShortError"}

(***************************************************************************)
(* Initial state.                                                          *)
(***************************************************************************)
NoMessage == Message(None, <<>>)
NoArgs == [kind |-> "unset", val |-> <<>>]
NoKey == [user_input |-> "", name |-> "", arguments |-> ""]

RunInit ==
    /\ functions = FunctionsDef
    /\ available_functions = AvailableFunctionsDef
    /\ pc = "idle"
    /\ user_input = "" /\ topic = ""
    /\ messages = <<>>
    /\ response_message = NoMessage
    /\ function_name = "" /\ function_args = NoArgs /\ function_response = ""
    /\ second_response = NoMessage
    /\ final_message = None
    /\ error = ""
    /\ requests = <<>> /\ trace = <<>> /\ handlerLog = <<>>
    /\ nCalls = 0 /\ sideEffects = 0 /\ toolReturns = 0 /\ lateFailures = 0
    /\ lastKey = NoKey /\ repeated = FALSE

NoS3Call == [fn |-> "", search_name |-> <<>>, bucket |-> None,
             prefix |-> <<>>, exact_match |-> TRUE]
NoS3Result == [raised |-> ""]

\* no S3 helper is called and the account is empty
S3Off ==
    /\ s3_buckets = <<>>
    /\ s3_objects = <<>>
    /\ s3_pc = "off"
    /\ s3_call = NoS3Call
    /\ s3_result = NoS3Result
    /\ s3_requests = <<>>

NoUploadCall == [source |-> <<>>, bucket |-> "", key |-> <<>>,
                 is_remote_url |-> FALSE]
NoUploadResult == [raised |-> ""]

\* upload_file is not called
UploadOff ==
    /\ up_pc = "off"
    /\ up_call = NoUploadCall
    /\ up_source = <<>>
    /\ up_files = <<>>
    /\ up_uploaded = {}
    /\ up_trace = <<>>
    /\ up_result = NoUploadResult

NoWebCall == [search_item |-> "", site_filter |-> NotGiven,
              params |-> [q |-> "", key |-> "", cx |-> "", num |-> 0]]
NoWebResponse == [exc |-> "", status_code |-> 0, body |-> [kind |-> "none"]]

\* the web-search notebook is not run
WebOff ==
    /\ web_pc = "off"
    /\ web_call = NoWebCall
    /\ web_response = NoWebResponse
    /\ search_items = NotGiven
    /\ web_idx = 0
    /\ web_content = NotGiven
    /\ results_list = <<>>
    /\ web_log = <<>>
    /\ web_error = ""

\* the accounts and working directories run_conversation is started with:
\* nothing at all, or a bucket with two objects and a local file
RunStores ==
    { [buckets |-> <<>>, objects |-> <<>>, files |-> <<>>],
      [buckets |-> <<"b1">>,
       objects |-> [b \in {"b1"} |-> { <<"a">>, <<"d", "/", "a">> }],
       files |-> [n \in { <<"a">> } |-> LocalContent(n)]] }

Init ==
    /\ RunInit
    /\ \E store \in RunStores :
           /\ s3_buckets = store.buckets
           /\ s3_objects = store.objects
           /\ up_files = store.files
    /\ s3_pc = "off" /\ s3_call = NoS3Call /\ s3_result = NoS3Result
    /\ s3_requests = <<>>
    /\ up_pc = "off" /\ up_call = NoUploadCall /\ up_source = <<>>
    /\ up_uploaded = {} /\ up_trace = <<>> /\ up_result = NoUploadResult
    /\ WebOff

FirstRequest(msgs) ==
    chat_completion_request(msgs, Given(functions), DefaultFunctionCall, GPT_MODEL)

\* variant: the tool specs are sent with the second request too
SecondRequestWithTools(msgs) ==
    chat_completion_request(msgs, Given(functions), DefaultFunctionCall, GPT_MODEL)

SecondRequest(msgs) ==
    chat_completion_request(msgs, NotGiven, DefaultFunctionCall, GPT_MODEL)

(***************************************************************************)
(* run_conversation, one action per step between two external calls.       *)
(***************************************************************************)
\* variant: the conversation is kept from one call to the next
CallCarryOver(u, t) ==
    /\ pc \in {"idle", "returned", "raised"}
    /\ nCalls < MaxCalls
    /\ nCalls' = nCalls + 1
    /\ user_input' = u /\ topic' = t
    /\ messages' = IF messages = <<>>
                   THEN InitialMessages(u, t)
                   ELSE Append(messages, [role |-> "user", content |-> u])
    /\ requests' = << FirstRequest(messages') >>
    /\ trace' = << "completion_call" >>
    /\ pc' = "completion1"
    /\ response_message' = NoMessage
    /\ function_name' = "" /\ function_args' = NoArgs /\ function_response' = ""
    /\ second_response' = NoMessage
    /\ final_message' = None /\ error' = ""
    /\ handlerLog' = <<>>
    /\ UNCHANGED << globals, world, sideEffects, toolReturns, lateFailures, lastKey, repeated >>

\* lines 377-385: build the conversation, issue the first completion call
\* (is_log only prints the choices, lines 388-389, and changes no state)
Call(u, t) ==
    /\ pc \in {"idle", "returned", "raised"}
    /\ nCalls < MaxCalls
    /\ nCalls' = nCalls + 1
    /\ user_input' = u /\ topic' = t
    /\ messages' = InitialMessages(u, t)
    /\ requests' = << FirstRequest(messages') >>
    /\ trace' = << "completion_call" >>
    /\ pc' = "completion1"
    /\ response_message' = NoMessage
    /\ function_name' = "" /\ function_args' = NoArgs /\ function_response' = ""
    /\ second_response' = NoMessage
    /\ final_message' = None /\ error' = ""
    /\ handlerLog' = <<>>
    /\ UNCHANGED << globals, world, sideEffects, toolReturns, lateFailures, lastKey, repeated >>

\* the ways a completion call fails: create() raises (no return is seen), or
\* it returns a response without a choice and choices[0] raises
CompletionFailures == {"APIError", "IndexError"}

\* the calls and returns seen when a completion call has failed
TraceAfter(failure) ==
    IF failure = "IndexError" THEN Append(trace, "completion_return") ELSE trace

\* variant: a failed first completion call is issued again
Completion1Retry(failure) ==
    /\ pc = "completion1"
    /\ Len(requests) < 3
    /\ error' = failure
    /\ requests' = Append(requests, requests[Len(requests)])
    /\ trace' = Append(TraceAfter(failure), "completion_call")
    /\ UNCHANGED << globals, world, history, pc, user_input, topic, messages,
                    response_message, function_name, function_args,
                    function_response, second_response, final_message,
                    handlerLog >>

\* lines 385-386: create() raises at line 385, or returns a response without
\* a choice and choices[0] raises at line 386; the exception leaves
\* run_conversation
Completion1Raise(failure) ==
    /\ pc = "completion1"
    /\ pc' = "raised" /\ error' = failure
    /\ trace' = TraceAfter(failure)
    /\ UNCHANGED << globals, world, history, user_input, topic, messages,
                    response_message, function_name, function_args,
                    function_response, second_response, final_message,
                    requests, handlerLog >>

\* lines 385-386: the first response arrives
Completion1Return(resp) ==
    /\ pc = "completion1"
    /\ response_message' = resp
    /\ trace' = Append(trace, "completion_return")
    /\ pc' = "dispatch"
    /\ UNCHANGED << globals, world, history, user_input, topic, messages,
                    function_name, function_args, function_response,
                    second_response, final_message, error, requests,
                    handlerLog >>

\* lines 392, 410-413: no tool invocation, return the content
NoToolCall ==
    /\ pc = "dispatch"
    /\ ~WantsTool(response_message)
    /\ final_message' = FinalMessageDirect(response_message)
    /\ pc' = "returned"
    /\ UNCHANGED << globals, world, history, user_input, topic, messages,
                    response_message, function_name, function_args,
                    function_response, second_response, error, requests,
                    trace, handlerLog >>

\* variant: an argument string that cannot be decoded counts as no arguments
DecodeFallback ==
    /\ pc = "dispatch"
    /\ WantsTool(response_message)
    /\ LET call == SelectedToolCall(response_message)
           args == json_loads(call.function.arguments)
           none == [kind |-> "dict", val |-> <<>>]
           runs == /\ call.function.name \in DOMAIN available_functions
                   /\ CallBinds(available_functions[call.function.name], none)
       IN /\ args.kind = "JSONDecodeError"
          /\ function_name' = call.function.name
          /\ function_args' = none
          /\ IF runs
             THEN /\ handlerLog' = Append(handlerLog,
                        [fn |-> available_functions[call.function.name],
                         kwargs |-> none.val])
                  /\ sideEffects' = sideEffects + 1
                  /\ trace' = Append(trace, "handler_call")
                  /\ pc' = "handler" /\ error' = ""
             ELSE /\ UNCHANGED << handlerLog, sideEffects, trace >>
                  /\ pc' = "raised" /\ error' = "TypeError"
    /\ UNCHANGED << globals, world, nCalls, toolReturns, lateFailures, lastKey,
                    repeated, user_input, topic, messages, response_message,
                    function_response, second_response, final_message,
                    requests >>

\* lines 393-394: json.loads raises on the argument string
DecodeRaise ==
    /\ pc = "dispatch"
    /\ WantsTool(response_message)
    /\ LET call == SelectedToolCall(response_message)
           args == json_loads(call.function.arguments)
       IN /\ args.kind = "JSONDecodeError"
          /\ function_name' = call.function.name
          /\ pc' = "raised" /\ error' = "JSONDecodeError"
    /\ UNCHANGED << globals, world, history, user_input, topic, messages,
                    response_message, function_args, function_response,
                    second_response, final_message, requests, trace,
                    handlerLog >>

\* variant: an unknown tool name is skipped and nothing is returned
LookupSilent ==
    /\ pc = "dispatch"
    /\ WantsTool(response_message)
    /\ LET call == SelectedToolCall(response_message)
           args == json_loads(call.function.arguments)
       IN /\ args.kind # "JSONDecodeError"
          /\ call.function.name \notin DOMAIN available_functions
          /\ function_name' = call.function.name
          /\ function_args' = args
          /\ pc' = "returned" /\ final_message' = None
    /\ UNCHANGED << globals, world, history, user_input, topic, messages,
                    response_message, function_response, second_response,
                    error, requests, trace, handlerLog >>

\* line 397: available_functions[function_name] raises KeyError
LookupRaise ==
    /\ pc = "dispatch"
    /\ WantsTool(response_message)
    /\ LET call == SelectedToolCall(response_message)
           args == json_loads(call.function.arguments)
       IN /\ args.kind # "JSONDecodeError"
          /\ call.function.name \notin DOMAIN available_functions
          /\ function_name' = call.function.name
          /\ function_args' = args
          /\ pc' = "raised" /\ error' = "KeyError"
    /\ UNCHANGED << globals, world, history, user_input, topic, messages,
                    response_message, function_response, second_response,
                    final_message, requests, trace, handlerLog >>

\* line 397: f(**function_args) raises TypeError before the body of f runs
BindRaise ==
    /\ pc = "dispatch"
    /\ WantsTool(response_message)
    /\ LET call == SelectedToolCall(response_message)
           args == json_loads(call.function.arguments)
       IN /\ args.kind # "JSONDecodeError"
          /\ call.function.name \in DOMAIN available_functions
          /\ ~CallBinds(available_functions[call.function.name], args)
          /\ function_name' = call.function.name
          /\ function_args' = args
          /\ pc' = "raised" /\ error' = "TypeError"
    /\ UNCHANGED << globals, world, history, user_input, topic, messages,
                    response_message, function_response, second_response,
                    final_message, requests, trace, handlerLog >>

\* variant: an invocation equal to the last one executed is served from a
\* cache, its handler is not executed again
HandlerEnterDedup ==
    /\ pc = "dispatch"
    /\ WantsTool(response_message)
    /\ LET call == SelectedToolCall(response_message)
           args == json_loads(call.function.arguments)
           key == [user_input |-> user_input,
                   name |-> call.function.name,
                   arguments |-> call.function.arguments]
       IN /\ args.kind # "JSONDecodeError"
          /\ call.function.name \in DOMAIN available_functions
          /\ CallBinds(available_functions[call.function.name], args)
          /\ function_name' = call.function.name
          /\ function_args' = args
          /\ repeated' = (key = lastKey)
          /\ lastKey' = key
          /\ IF key = lastKey
             THEN UNCHANGED << handlerLog, sideEffects, trace >>
             ELSE /\ handlerLog' = Append(handlerLog,
                        [fn |-> available_functions[call.function.name],
                         kwargs |-> args.val])
                  /\ sideEffects' = sideEffects + 1
                  /\ trace' = Append(trace, "handler_call")
    /\ pc' = "handler"
    /\ UNCHANGED << globals, world, nCalls, toolReturns, lateFailures, user_input,
                    topic, messages, response_message, function_response,
                    second_response, final_message, error, requests >>

\* lines 393-397: the handler is looked up and entered with the decoded mapping
HandlerEnter ==
    /\ pc = "dispatch"
    /\ WantsTool(response_message)
    /\ LET call == SelectedToolCall(response_message)
           args == json_loads(call.function.arguments)
           key == [user_input |-> user_input,
                   name |-> call.function.name,
                   arguments |-> call.function.arguments]
       IN /\ args.kind # "JSONDecodeError"
          /\ call.function.name \in DOMAIN available_functions
          /\ CallBinds(available_functions[call.function.name], args)
          /\ function_name' = call.function.name
          /\ function_args' = args
          /\ handlerLog' = Append(handlerLog,
                 [fn |-> available_functions[call.function.name],
                  kwargs |-> args.val])
          /\ repeated' = (key = lastKey)
          /\ lastKey' = key
    /\ sideEffects' = sideEffects + 1
    /\ trace' = Append(trace, "handler_call")
    /\ pc' = "handler"
    /\ UNCHANGED << globals, world, nCalls, toolReturns, lateFailures, user_input,
                    topic, messages, response_message, function_response,
                    second_response, final_message, error, requests >>

\* the handler call of line 397 with the arguments bound by HandlerEnter
HandlerCall(site, service) ==
    CallHandler(available_functions[function_name], function_args.val, site,
                service)

\* variant: a handler that raised is called again
HandlerRetry(site, service) ==
    /\ pc = "handler"
    /\ Len(handlerLog) < 3
    /\ \E got \in {HandlerCall(site, service)} :
          /\ got.raised # ""
          /\ s3_objects' = got.objects /\ s3_requests' = got.requests
          /\ up_files' = got.files /\ up_uploaded' = got.uploaded
    /\ handlerLog' = Append(handlerLog, handlerLog[Len(handlerLog)])
    /\ sideEffects' = sideEffects + 1
    /\ trace' = Append(trace, "handler_call")
    /\ UNCHANGED << globals, nCalls, toolReturns, lateFailures, lastKey,
                    repeated, pc, user_input, topic, messages,
                    response_message, function_name, function_args,
                    function_response, second_response, final_message, error,
                    requests >>

\* variant: the handler's exception is caught and reported to the model
HandlerRaiseCaught(site, service) ==
    /\ pc = "handler"
    /\ \E got \in {HandlerCall(site, service)} :
          /\ got.raised # ""
          /\ error' = got.raised
          /\ s3_objects' = got.objects /\ s3_requests' = got.requests
          /\ up_files' = got.files /\ up_uploaded' = got.uploaded
    /\ function_response' = "{\"error\": \"failed\"}"
    /\ messages' = AppendTurns(messages, response_message,
                               ToolTurn(function_response', response_message))
    /\ requests' = Append(requests, SecondRequest(messages'))
    /\ trace' = Append(trace, "completion_call")
    /\ pc' = "completion2"
    /\ UNCHANGED << globals, history, user_input, topic, response_message,
                    function_name, function_args, second_response,
                    final_message, handlerLog >>

\* line 397: the handler raises, the exception leaves run_conversation; what
\* the handler did before it raised stays done
HandlerRaise(site, service) ==
    /\ pc = "handler"
    /\ \E got \in {HandlerCall(site, service)} :
          /\ got.raised # ""
          /\ error' = got.raised
          /\ s3_objects' = got.objects /\ s3_requests' = got.requests
          /\ up_files' = got.files /\ up_uploaded' = got.uploaded
    /\ pc' = "raised"
    /\ lateFailures' = lateFailures + 1
    /\ UNCHANGED << globals, nCalls, sideEffects, toolReturns, lastKey,
                    repeated, user_input, topic, messages, response_message,
                    function_name, function_args, function_response,
                    second_response, final_message, requests, trace,
                    handlerLog >>

\* lines 397-408: the handler returns its JSON text, both turns are appended
\* and the second completion call is issued
HandlerReturn(site, service) ==
    /\ pc = "handler"
    /\ \E got \in {HandlerCall(site, service)} :
          /\ got.raised = ""
          /\ function_response' =
                 json_text(available_functions[function_name], got.doc)
          /\ s3_objects' = got.objects /\ s3_requests' = got.requests
          /\ up_files' = got.files /\ up_uploaded' = got.uploaded
    /\ messages' = AppendTurns(messages, response_message,
                               ToolTurn(function_response', response_message))
    /\ requests' = Append(requests, SecondRequest(messages'))
    /\ trace' = trace \o << "handler_return", "completion_call" >>
    /\ pc' = "completion2"
    /\ UNCHANGED << globals, history, user_input, topic, response_message,
                    function_name, function_args, second_response,
                    final_message, error, handlerLog >>

\* variant: a failed second completion call is issued again
Completion2Retry(failure) ==
    /\ pc = "completion2"
    /\ Len(requests) < 4
    /\ requests' = Append(requests, requests[Len(requests)])
    /\ trace' = Append(TraceAfter(failure), "completion_call")
    /\ UNCHANGED << globals, world, history, pc, user_input, topic, messages,
                    response_message, function_name, function_args,
                    function_response, second_response, final_message, error,
                    handlerLog >>

\* lines 408-409: create() raises at line 408, or returns a response
\* without a choice and choices[0] raises at line 409
Completion2Raise(failure) ==
    /\ pc = "completion2"
    /\ pc' = "raised" /\ error' = failure
    /\ trace' = TraceAfter(failure)
    /\ lateFailures' = lateFailures + 1
    /\ UNCHANGED << globals, world, nCalls, sideEffects, toolReturns, lastKey,
                    repeated, user_input, topic, messages, response_message,
                    function_name, function_args, function_response,
                    second_response, final_message, requests, handlerLog >>

\* lines 408-413: the second response arrives, its content is returned
Completion2Return(resp) ==
    /\ pc = "completion2"
    /\ second_response' = resp
    /\ final_message' = FinalMessageTool(resp)
    /\ trace' = Append(trace, "completion_return")
    /\ pc' = "returned"
    /\ toolReturns' = toolReturns + 1
    /\ UNCHANGED << globals, world, nCalls, sideEffects, lateFailures, lastKey,
                    repeated, user_input, topic, messages, response_message,
                    function_name, function_args, function_response, error,
                    requests, handlerLog >>

Next ==
    \/ \E u \in UserInputs, t \in Topics : Call(u, t)
    \/ \E failure \in CompletionFailures : Completion1Raise(failure)
    \/ /\ pc = "completion1"
       /\ \E resp \in ServiceResponses(requests[1]) : Completion1Return(resp)
    \/ NoToolCall
    \/ DecodeRaise
    \/ LookupRaise
    \/ BindRaise
    \/ HandlerEnter
    \/ \E site \in Sites, service \in Services : HandlerRaise(site, service)
    \/ \E site \in Sites, service \in Services : HandlerReturn(site, service)
    \/ \E failure \in CompletionFailures : Completion2Raise(failure)
    \/ /\ pc = "completion2"
       /\ \E resp \in ServiceResponses(requests[Len(requests)]) :
              Completion2Return(resp)

Spec == Init /\ [][Next]_vars

(***************************************************************************)
(* The S3 helpers called on their own.                                     *)
(***************************************************************************)
\* an account with its buckets and objects and a working directory, before a
\* helper is called
InitS3 ==
    /\ RunInit
    /\ s3_buckets \in BucketLists
    /\ s3_objects \in [{s3_buckets[i] : i \in DOMAIN s3_buckets} -> SUBSET AllKeys]
    /\ s3_pc = "idle"
    /\ s3_call = NoS3Call
    /\ s3_result = NoS3Result
    /\ s3_requests = <<>>
    /\ up_pc = "off" /\ up_call = NoUploadCall /\ up_source = <<>>
    /\ \E present \in { {}, { <<"d", "/", "a">> } } :
           up_files = [n \in present |-> LocalContent(n)]
    /\ up_uploaded = {} /\ up_trace = <<>> /\ up_result = NoUploadResult
    /\ WebOff

\* lines 245-247
CallListBuckets ==
    /\ s3_pc = "idle"
    /\ s3_call' = S3Call("list_buckets", <<>>, None, <<>>, TRUE)
    /\ s3_result' = list_buckets
    /\ s3_requests' = << [op |-> "list_buckets", Bucket |-> None,
                          Prefix |-> <<>>] >>
    /\ s3_pc' = "done"
    /\ UNCHANGED << runvars, webvars, upvars, s3_buckets, s3_objects >>

\* lines 249-251
CallListObjects(bucket, prefix) ==
    /\ s3_pc = "idle"
    /\ s3_call' = S3Call("list_objects", <<>>, bucket, prefix, TRUE)
    /\ s3_result' = list_objects(bucket, prefix)
    /\ s3_requests' = << [op |-> "list_objects_v2", Bucket |-> bucket,
                          Prefix |-> prefix] >>
    /\ s3_pc' = "done"
    /\ UNCHANGED << runvars, webvars, upvars, s3_buckets, s3_objects >>

\* lines 272-293
CallSearchS3Objects(search_name, bucket, prefix, exact_match) ==
    /\ s3_pc = "idle"
    /\ s3_call' = S3Call("search_s3_objects", search_name, bucket, prefix,
                         exact_match)
    /\ s3_result' = search_s3_objects(search_name, bucket, prefix, exact_match)
    /\ s3_requests' = SearchRequests(bucket, prefix)
    /\ s3_pc' = "done"
    /\ UNCHANGED << runvars, webvars, upvars, s3_buckets, s3_objects >>

\* lines 253-261: the object is written to the directory under the last
\* component of its key
CallDownloadFile(bucket, key, directory) ==
    /\ s3_pc = "idle"
    /\ LET got == download_file(bucket, key, directory, "up")
       IN /\ s3_call' = [fn |-> "download_file", bucket |-> bucket,
                         key |-> key, directory |-> directory]
          /\ s3_result' = IF got.raised # ""
                          THEN [raised |-> got.raised] ELSE got.doc
          /\ s3_requests' = got.requests
          /\ up_files' = got.files
    /\ s3_pc' = "done"
    /\ UNCHANGED << runvars, webvars, s3_buckets, s3_objects, up_pc, up_call,
                    up_source, up_uploaded, up_trace, up_result >>

NextS3 ==
    \/ CallListBuckets
    \/ \E bucket \in BucketArgs, prefix \in Prefixes :
           CallListObjects(bucket, prefix)
    \/ \E search_name \in SearchNames, bucket \in BucketArgs \cup {None},
          prefix \in Prefixes, exact_match \in BOOLEAN :
           CallSearchS3Objects(search_name, bucket, prefix, exact_match)
    \/ \E bucket \in BucketArgs, key \in AllKeys,
          directory \in Directories :
           CallDownloadFile(bucket, key, directory)

SpecS3 == InitS3 /\ [][NextS3]_vars

(***************************************************************************)
(* upload_file (lines 263-270), one action per step between two external   *)
(* calls.  urlretrieve and s3_client.upload_file are external: what the    *)
(* web site and the S3 service do is the environment's choice.             *)
(***************************************************************************)
UploadSources ==
    { <<"a">>, <<"d", "/", "a">>, <<"h", ":", "/", "a">>, <<"h", ":", "/">> }
UploadKeys == { <<"a">>, <<"d", "/", "b">> }

UploadEvent(op, url, filename, bucket, key, ok) ==
    [op |-> op, url |-> url, Filename |-> filename, Bucket |-> bucket,
     Key |-> key, ok |-> ok]

\* an account and a machine with some local files, before upload_file is
\* called
InitUpload ==
    /\ RunInit
    /\ WebOff
    /\ s3_buckets \in { <<>>, <<"b1">> }
    /\ s3_objects = [b \in {s3_buckets[i] : i \in DOMAIN s3_buckets} |-> {}]
    /\ s3_pc = "off" /\ s3_call = NoS3Call /\ s3_result = NoS3Result
    /\ s3_requests = <<>>
    /\ up_pc = "idle"
    /\ up_call = NoUploadCall
    /\ up_source = <<>>
    /\ \E present \in SUBSET LocalNames :
           up_files = [n \in present |-> LocalContent(n)]
    /\ up_uploaded = {}
    /\ up_trace = <<>>
    /\ up_result = NoUploadResult

\* lines 263-264: the call and the test of is_remote_url
UploadEnter(source, bucket, key, is_remote_url) ==
    /\ up_pc = "idle"
    /\ up_call' = [source |-> source, bucket |-> bucket, key |-> key,
                   is_remote_url |-> is_remote_url]
    /\ up_source' = source
    /\ up_pc' = IF is_remote_url THEN "fetch" ELSE "upload"
    /\ UNCHANGED << runvars, webvars, s3_buckets, s3_pc, s3_call, s3_result,
                    world, up_trace, up_result >>

\* lines 265-267: urlretrieve wrote the file; source becomes its name
UrlretrieveReturn(site) ==
    /\ up_pc = "fetch"
    /\ LET file_name == basename(up_source)
           got == urlretrieve(up_source, file_name, up_files, site)
       IN /\ got.raised = ""
          /\ up_files' = got.files
          /\ up_trace' = Append(up_trace,
                 UploadEvent("urlretrieve", up_source, file_name, "", <<>>, TRUE))
          /\ up_source' = file_name
    /\ up_pc' = "upload"
    /\ UNCHANGED << runvars, webvars, s3_buckets, s3_pc, s3_call, s3_result,
                    s3_objects, s3_requests, up_call, up_uploaded, up_result >>

\* variant: a failed fetch is ignored and the upload goes on
UrlretrieveRaiseIgnored(site) ==
    /\ up_pc = "fetch"
    /\ LET file_name == basename(up_source)
           got == urlretrieve(up_source, file_name, up_files, site)
       IN /\ got.raised # ""
          /\ up_files' = got.files
          /\ up_trace' = Append(up_trace,
                 UploadEvent("urlretrieve", up_source, file_name, "", <<>>, FALSE))
          /\ up_source' = file_name
    /\ up_pc' = "upload"
    /\ UNCHANGED << runvars, webvars, s3_buckets, s3_pc, s3_call, s3_result,
                    s3_objects, s3_requests, up_call, up_uploaded, up_result >>

\* line 266: urlretrieve raises and upload_file raises with it; a body that
\* came short has been written over the target
UrlretrieveRaise(site) ==
    /\ up_pc = "fetch"
    /\ LET file_name == basename(up_source)
           got == urlretrieve(up_source, file_name, up_files, site)
       IN /\ got.raised # ""
          /\ up_files' = got.files
          /\ up_trace' = Append(up_trace,
                 UploadEvent("urlretrieve", up_source, file_name, "", <<>>, FALSE))
          /\ up_result' = [raised |-> got.raised]
    /\ up_pc' = "raised"
    /\ UNCHANGED << runvars, webvars, s3_buckets, s3_pc, s3_call, s3_result,
                    s3_objects, s3_requests, up_call, up_source, up_uploaded >>

\* lines 269-270: the upload returned and the status is returned
UploadFileReturn(service) ==
    /\ up_pc = "upload"
    /\ LET put == client_upload_file(up_source, up_call.bucket, up_call.key,
                                     up_files, s3_objects, up_uploaded, service)
       IN /\ put.raised = ""
          /\ s3_objects' = put.objects
          /\ up_uploaded' = put.uploaded
    /\ s3_requests' = Append(s3_requests,
           TransferRequest("upload_file", up_source, up_call.bucket,
                           up_call.key))
    /\ up_trace' = Append(up_trace,
           UploadEvent("upload_file", <<>>, up_source, up_call.bucket,
                       up_call.key, TRUE))
    /\ up_result' = json_dumps([status |-> "success", source |-> up_source,
                                bucket |-> up_call.bucket, key |-> up_call.key])
    /\ up_pc' = "returned"
    /\ UNCHANGED << runvars, webvars, s3_buckets, s3_pc, s3_call, s3_result,
                    up_call, up_source, up_files >>

\* line 269: s3_client.upload_file raises and upload_file raises with it
UploadFileRaise(service) ==
    /\ up_pc = "upload"
    /\ LET put == client_upload_file(up_source, up_call.bucket, up_call.key,
                                     up_files, s3_objects, up_uploaded, service)
       IN /\ put.raised # ""
          /\ up_result' = [raised |-> put.raised]
    /\ s3_requests' = Append(s3_requests,
           TransferRequest("upload_file", up_source, up_call.bucket,
                           up_call.key))
    /\ up_trace' = Append(up_trace,
           UploadEvent("upload_file", <<>>, up_source, up_call.bucket,
                       up_call.key, FALSE))
    /\ up_pc' = "raised"
    /\ UNCHANGED << runvars, webvars, s3_buckets, s3_pc, s3_call, s3_result,
                    s3_objects, up_call, up_source, up_files, up_uploaded >>

NextUpload ==
    \/ \E source \in UploadSources, bucket \in BucketArgs, key \in UploadKeys,
          is_remote_url \in BOOLEAN :
           UploadEnter(source, bucket, key, is_remote_url)
    \/ \E site \in Sites : UrlretrieveReturn(site)
    \/ \E site \in Sites : UrlretrieveRaise(site)
    \/ \E service \in Services : UploadFileReturn(service)
    \/ \E service \in Services : UploadFileRaise(service)

SpecUpload == InitUpload /\ [][NextUpload]_vars

(***************************************************************************)
(* The web-search notebook                                                 *)
(* (src/examples/third_party/Web_search_with_google_api_bring_your_own_    *)
(* browser_tool.ipynb): search, the loop over search_items,                *)
(* retrieve_content, summarize_content and get_search_results.  The HTTP   *)
(* responses and the completion service's answers are the environment's    *)
(* choice.  Links and page texts are sequences of characters.              *)
(***************************************************************************)
\* TRUNCATE_SCRAPED_TEXT of the notebook (50000 there, scaled)
TRUNCATE_SCRAPED_TEXT == 1

\* items of a custom-search response; the last one has no snippet
Item1 == [title |-> "t1", link |-> <<"o", "/", "a">>, snippet |-> "s1"]
Item2 == [title |-> "t2", link |-> <<"x", "?", "o", "/">>, snippet |-> "s2"]
Item3 == [title |-> "t3", link |-> <<"x", "/", "b">>]
Item4 == [title |-> "t4", link |-> <<"o", "/", "c">>, snippet |-> "s4"]
ItemPool == {Item1, Item2, Item3, Item4}

\* the lists of distinct items
ItemLists ==
    { l \in UNION { [1..n -> ItemPool] : n \in 0..Cardinality(ItemPool) } :
        \A i, j \in DOMAIN l : i # j => l[i] # l[j] }

SiteFilters == { NotGiven, Given(<<"o", "/">>), Given(<<"z">>) }
SearchTerms == {"Latest OpenAI product launches"}

\* the classes an exception class derives from, itself included
Superclasses(cls) ==
    CASE cls \in {"ConnectionError", "Timeout", "HTTPError"} ->
           {cls, "RequestException", "OSError", "Exception"}
      [] cls \in {"APIConnectionError", "RateLimitError"} ->
           {cls, "OpenAIError", "Exception"}
      [] cls = "TypeError" -> {cls, "Exception"}
      [] cls = "KeyError" -> {cls, "LookupError", "Exception"}

\* variant: only an error status is handled
except_HTTPError(exc) == "HTTPError" \in Superclasses(exc)

\* except requests.exceptions.RequestException
except_RequestException(exc) == "RequestException" \in Superclasses(exc)

\* except Exception
except_Exception(exc) == "Exception" \in Superclasses(exc)

\* an HTTP exchange: requests.get raised exc, or a response arrived
HttpResponse(exc, status_code, body) ==
    [exc |-> exc, status_code |-> status_code, body |-> body]

\* response.raise_for_status(): the exception raised, "" when none
raise_for_status(response) ==
    IF response.status_code >= 400 /\ response.status_code < 600
    THEN "HTTPError"
    ELSE ""

\* requests.get followed by raise_for_status: the exception raised, "" when none
RequestFailure(response) ==
    IF response.exc # "" THEN response.exc ELSE raise_for_status(response)

\* the responses of the custom-search service
SearchResponses ==
    { HttpResponse(exc, 0, [kind |-> "none"]) : exc \in {"ConnectionError", "Timeout"} }
    \cup { HttpResponse("", code, [kind |-> "error"]) : code \in {403, 500} }
    \cup { HttpResponse("", 200, [kind |-> "customsearch#search"]) }
    \cup { HttpResponse("", 200, [kind |-> "customsearch#search", items |-> l]) :
             l \in ItemLists }

\* a node of a parsed page: a run of text, or a script or style element
Node(tag, text) == [tag |-> tag, text |-> text]

\* the pages of the web sites, as the nodes BeautifulSoup finds in them
PageBodies ==
    { << Node("text", <<"p">>), Node("script", <<"x">>),
         Node("text", <<"q", "r", "s", "t">>) >>,
      << Node("text", <<" ", "p", " ">>), Node("style", <<"y">>),
         Node("text", <<" ">>) >>,
      << Node("text", <<"p">>) >> }

\* the responses of a web site
PageResponses ==
    { HttpResponse(exc, 0, <<>>) : exc \in {"ConnectionError"} }
    \cup { HttpResponse("", 404, <<>>) }
    \cup { HttpResponse("", 200, body) : body \in PageBodies }

\* the answers of the completion service to a summarization request
SummaryResponses ==
    { [exc |-> "", content |-> "summary"],
      [exc |-> "", content |-> None],
      [exc |-> "RateLimitError", content |-> None] }

\* lines 367 and 369: dict.get(key, default)
dict_get(d, key, default) == IF key \in DOMAIN d THEN d[key] ELSE default

\* lines 139-144
search_params(search_item, api_key, cse_id, search_depth) ==
    [q |-> search_item, key |-> api_key, cx |-> cse_id, num |-> search_depth]

\* variant: the link has to begin with site_filter
filtered_results_prefix(items, site_filter) ==
    SelectSeq(items, LAMBDA result : StartsWith(result.link, site_filter))

\* line 156
filtered_results(items, site_filter) ==
    SelectSeq(items, LAMBDA result : str_contains(site_filter, result.link))

\* what a call returned (ret: a value, NotGiven for None) or raised
Returned(value) == [ret |-> Given(value), raised |-> ""]
ReturnedNone == [ret |-> NotGiven, raised |-> ""]
Raised(exc) == [ret |-> NotGiven, raised |-> exc]

\* lines 136-172; response is what requests.get gives for the request
search(search_item, api_key, cse_id, search_depth, site_filter, response) ==
    LET failure == RequestFailure(response)
        results == response.body
    IN IF failure # ""
       THEN IF except_RequestException(failure)
            THEN Returned(<<>>)
            ELSE Raised(failure)
       ELSE IF "items" \in DOMAIN results
            THEN IF site_filter # NotGiven
                 THEN LET filtered ==
                              filtered_results(results.items, ValueOf(site_filter))
                      IN IF filtered # <<>>
                         THEN Returned(filtered)
                         ELSE Returned(<<>>)
                 ELSE IF "items" \in DOMAIN results
                      THEN Returned(results.items)
                      ELSE Returned(<<>>)
            ELSE ReturnedNone

\* lines 334-335: the script and style elements are removed
decompose(content) ==
    SelectSeq(content, LAMBDA node : node.tag \notin {"script", "style"})

\* str.strip
RECURSIVE str_lstrip(_)
str_lstrip(text) ==
    IF text # <<>> /\ text[1] = " " THEN str_lstrip(Tail(text)) ELSE text
RECURSIVE str_rstrip(_)
str_rstrip(text) ==
    IF text # <<>> /\ text[Len(text)] = " "
    THEN str_rstrip(SubSeq(text, 1, Len(text) - 1))
    ELSE text
str_strip(text) == str_rstrip(str_lstrip(text))

\* separator.join(texts)
RECURSIVE str_join(_, _)
str_join(separator, texts) ==
    IF texts = <<>> THEN <<>>
    ELSE IF Len(texts) = 1 THEN texts[1]
         ELSE texts[1] \o separator \o str_join(separator, Tail(texts))

\* line 337: soup.get_text(separator, strip=True): the stripped runs of text
\* that are not empty, joined by the separator
get_text(content, separator) ==
    LET stripped == [i \in DOMAIN content |-> str_strip(content[i].text)]
    IN str_join(separator, SelectSeq(stripped, LAMBDA text : text # <<>>))

\* line 339: text[:characters]
str_prefix(text, characters) ==
    SubSeq(text, 1, IF Len(text) < characters THEN Len(text) ELSE characters)

\* lines 327-343; response is what requests.get gives for url
retrieve_content(url, max_tokens, response) ==
    LET failure == RequestFailure(response)
        text == get_text(decompose(response.body), <<" ">>)
        characters == max_tokens * 4
    IN IF failure # ""
       THEN IF except_RequestException(failure)
            THEN ReturnedNone
            ELSE Raised(failure)
       ELSE Returned(str_prefix(text, characters))

\* lines 345-361; answer is what the completion service gives
summarize_content(content, term, character_limit, answer) ==
    IF answer.exc # ""
    THEN IF except_Exception(answer.exc)
         THEN [ret |-> None, raised |-> ""]
         ELSE [ret |-> None, raised |-> answer.exc]
    ELSE [ret |-> answer.content, raised |-> ""]

\* lines 376-381
result_dict(order, url, snippet, summary) ==
    [order |-> order, link |-> url, title |-> snippet, Summary |-> summary]

WebEvent(op, n, arg, ok) == [op |-> op, idx |-> n, arg |-> arg, ok |-> ok]

\* the notebook before search is called
InitWeb ==
    /\ RunInit
    /\ S3Off
    /\ UploadOff
    /\ web_pc = "idle"
    /\ web_call = NoWebCall
    /\ web_response = NoWebResponse
    /\ search_items = NotGiven
    /\ web_idx = 0
    /\ web_content = NotGiven
    /\ results_list = <<>>
    /\ web_log = <<>>
    /\ web_error = ""

\* line 243: search_items = search(...)
Search(search_item, site_filter, response) ==
    /\ web_pc = "idle"
    /\ web_call' = [search_item |-> search_item, site_filter |-> site_filter,
                    params |-> search_params(search_item, "API_KEY", "CSE_ID", 10)]
    /\ web_response' = response
    /\ LET out == search(search_item, "API_KEY", "CSE_ID", 10, site_filter,
                         response)
       IN IF out.raised # ""
          THEN /\ web_pc' = "raised"
               /\ web_error' = out.raised
               /\ search_items' = NotGiven
          ELSE /\ web_pc' = "searched"
               /\ web_error' = web_error
               /\ search_items' = out.ret
    /\ UNCHANGED << runvars, s3vars, upvars, web_idx, web_content, results_list,
                    web_log >>

\* lines 290-291: item['link'] and item['snippet'] are there
Printable(item) == "link" \in DOMAIN item /\ "snippet" \in DOMAIN item

\* lines 289-291: for item in search_items, over a list whose items all have
\* a link and a snippet
IterateItems ==
    /\ web_pc = "searched"
    /\ search_items # NotGiven
    /\ \A i \in DOMAIN ValueOf(search_items) :
           Printable(ValueOf(search_items)[i])
    /\ web_pc' = "listed"
    /\ UNCHANGED << runvars, s3vars, upvars, web_call, web_response,
                    search_items, web_idx, web_content, results_list, web_log,
                    web_error >>

\* lines 289-291: for item in search_items, over None or up to an item
\* without a link or a snippet
IterateRaise ==
    /\ web_pc = "searched"
    /\ \/ search_items = NotGiven
       \/ /\ search_items # NotGiven
          /\ \E i \in DOMAIN ValueOf(search_items) :
                 ~Printable(ValueOf(search_items)[i])
    /\ web_pc' = "raised"
    /\ web_error' = IF search_items = NotGiven THEN "TypeError" ELSE "KeyError"
    /\ UNCHANGED << runvars, s3vars, upvars, web_call, web_response,
                    search_items, web_idx, web_content, results_list, web_log >>

\* where the loop of get_search_results stands after item n
AfterItem(n) == IF n >= Len(ValueOf(search_items)) THEN "done" ELSE "retrieve"

\* lines 363-366 and 445: get_search_results(search_items) is entered
GetSearchResultsEnter ==
    /\ web_pc = "listed"
    /\ results_list' = <<>>
    /\ web_log' = <<>>
    /\ web_idx' = 1
    /\ web_pc' = AfterItem(0)
    /\ UNCHANGED << runvars, s3vars, upvars, web_call, web_response,
                    search_items, web_content, web_error >>

\* variant: a page that cannot be retrieved ends the loop
RetrieveContentFailedBreak(response) ==
    /\ web_pc = "retrieve"
    /\ LET item == ValueOf(search_items)[web_idx]
           url == dict_get(item, "link", None)
           out == retrieve_content(url, TRUNCATE_SCRAPED_TEXT, response)
       IN /\ out.ret = NotGiven
          /\ web_log' = Append(web_log, WebEvent("get", web_idx, url, FALSE))
          /\ web_content' = NotGiven
          /\ IF out.raised # ""
             THEN /\ web_pc' = "raised"
                  /\ web_error' = out.raised
                  /\ web_idx' = web_idx
             ELSE /\ web_pc' = "done"
                  /\ web_error' = web_error
                  /\ web_idx' = web_idx + 1
    /\ UNCHANGED << runvars, s3vars, upvars, web_call, web_response,
                    search_items, results_list >>

\* lines 367-373: retrieve_content gives None and the item is skipped
RetrieveContentFailed(response) ==
    /\ web_pc = "retrieve"
    /\ LET item == ValueOf(search_items)[web_idx]
           url == dict_get(item, "link", None)
           out == retrieve_content(url, TRUNCATE_SCRAPED_TEXT, response)
       IN /\ out.ret = NotGiven
          /\ web_log' = Append(web_log, WebEvent("get", web_idx, url, FALSE))
          /\ web_content' = NotGiven
          /\ IF out.raised # ""
             THEN /\ web_pc' = "raised"
                  /\ web_error' = out.raised
                  /\ web_idx' = web_idx
             ELSE /\ web_pc' = AfterItem(web_idx)
                  /\ web_error' = web_error
                  /\ web_idx' = web_idx + 1
    /\ UNCHANGED << runvars, s3vars, upvars, web_call, web_response,
                    search_items, results_list >>

\* lines 367-372: retrieve_content gives the text of the page
RetrieveContentReturned(response) ==
    /\ web_pc = "retrieve"
    /\ LET item == ValueOf(search_items)[web_idx]
           url == dict_get(item, "link", None)
           out == retrieve_content(url, TRUNCATE_SCRAPED_TEXT, response)
       IN /\ out.ret # NotGiven
          /\ web_log' = Append(web_log, WebEvent("get", web_idx, url, TRUE))
          /\ web_content' = out.ret
    /\ web_pc' = "summarize"
    /\ UNCHANGED << runvars, s3vars, upvars, web_call, web_response,
                    search_items, web_idx, results_list, web_error >>

\* variant: order is the position in the output
SummarizeContentOutputOrder(answer) ==
    /\ web_pc = "summarize"
    /\ LET item == ValueOf(search_items)[web_idx]
           url == dict_get(item, "link", None)
           snippet == dict_get(item, "snippet", "")
           out == summarize_content(ValueOf(web_content), web_call.search_item,
                                    500, answer)
       IN /\ web_log' = Append(web_log,
                 WebEvent("summarize", web_idx, ValueOf(web_content),
                          answer.exc = ""))
          /\ IF out.raised # ""
             THEN /\ web_pc' = "raised"
                  /\ web_error' = out.raised
                  /\ UNCHANGED << web_idx, results_list >>
             ELSE /\ results_list' = Append(results_list,
                        result_dict(Len(results_list) + 1, url, snippet, out.ret))
                  /\ web_idx' = web_idx + 1
                  /\ web_pc' = AfterItem(web_idx)
                  /\ web_error' = web_error
    /\ UNCHANGED << runvars, s3vars, upvars, web_call, web_response,
                    search_items, web_content >>

\* lines 375-382: summarize_content and the entry appended to results_list
SummarizeContent(answer) ==
    /\ web_pc = "summarize"
    /\ LET item == ValueOf(search_items)[web_idx]
           url == dict_get(item, "link", None)
           snippet == dict_get(item, "snippet", "")
           out == summarize_content(ValueOf(web_content), web_call.search_item,
                                    500, answer)
       IN /\ web_log' = Append(web_log,
                 WebEvent("summarize", web_idx, ValueOf(web_content),
                          answer.exc = ""))
          /\ IF out.raised # ""
             THEN /\ web_pc' = "raised"
                  /\ web_error' = out.raised
                  /\ UNCHANGED << web_idx, results_list >>
             ELSE /\ results_list' = Append(results_list,
                        result_dict(web_idx, url, snippet, out.ret))
                  /\ web_idx' = web_idx + 1
                  /\ web_pc' = AfterItem(web_idx)
                  /\ web_error' = web_error
    /\ UNCHANGED << runvars, s3vars, upvars, web_call, web_response,
                    search_items, web_content >>

NextWeb ==
    \/ \E search_item \in SearchTerms, site_filter \in SiteFilters,
          response \in SearchResponses :
           Search(search_item, site_filter, response)
    \/ IterateItems
    \/ IterateRaise
    \/ GetSearchResultsEnter
    \/ \E response \in PageResponses : RetrieveContentFailed(response)
    \/ \E response \in PageResponses : RetrieveContentReturned(response)
    \/ \E answer \in SummaryResponses : SummarizeContent(answer)

SpecWeb == InitWeb /\ [][NextWeb]_vars

(***************************************************************************)
(* Properties of run_conversation.                                         *)
(***************************************************************************)

\* C1: when the first completion response carries no tool invocation, the
\* call issues exactly one completion-service call, executes no handler and
\* returns that response's content unchanged (an absent content included).
\* A response without a choice has no message to carry anything: it is a
\* failed completion call.
C1_NoToolReturnsContent ==
    (Len(trace) >= 2 /\ response_message.tool_calls = <<>>
        /\ error \notin CompletionFailures) =>
        /\ pc \in {"dispatch", "returned"}
        /\ Len(requests) = 1
        /\ trace = << "completion_call", "completion_return" >>
        /\ handlerLog = <<>>
        /\ pc = "returned" => final_message = response_message.content

C1_Witness ==
    /\ pc = "returned"
    /\ response_message = Message(None, <<>>)
    /\ final_message = None
    /\ Len(requests) = 1

\* C2: a call whose first response carries a tool invocation and which
\* returns normally has issued, in this order, the first completion call, one
\* handler call and the second completion call, the handler having returned
\* before the second completion call was issued.
C2_ToolPathOrder ==
    /\ (pc = "returned" /\ response_message.tool_calls # <<>>) =>
           /\ trace = << "completion_call", "completion_return",
                         "handler_call", "handler_return",
                         "completion_call", "completion_return" >>
           /\ Len(requests) = 2
           /\ Len(handlerLog) = 1
    /\ pc = "completion2" =>
           trace = << "completion_call", "completion_return",
                      "handler_call", "handler_return", "completion_call" >>

C2_Witness ==
    /\ pc = "returned"
    /\ Len(response_message.tool_calls) = 1
    /\ Len(trace) = 6
    /\ function_name = "download_file"

\* C3: whatever the model answers and whether the call returns or fails, at
\* most one handler is executed and at most two completion calls are issued;
\* a call that returned has issued one or two completion calls.
C3_AtMostOneHandlerTwoCompletions ==
    /\ Len(handlerLog) <= 1
    /\ Cardinality({i \in DOMAIN trace : trace[i] = "handler_call"}) <= 1
    /\ Len(requests) <= 2
    /\ Cardinality({i \in DOMAIN trace : trace[i] = "completion_call"})
           = Len(requests)
    /\ pc = "returned" => Len(requests) \in {1, 2}

C3_Witness ==
    /\ pc = "raised"
    /\ Len(response_message.tool_calls) = MaxToolCalls
    /\ Len(handlerLog) = 1
    /\ Len(requests) = 2

\* C4: when the tool named by the first response's invocation (the one the
\* call dispatches on, tool_calls[0]) is not a key of the handler table, the call raises: it returns no value, executes no
\* handler and issues no second completion call.
C4_UnknownToolRaises ==
    (/\ Len(trace) >= 2
     /\ response_message.tool_calls # <<>>
     /\ response_message.tool_calls[1].function.name
            \notin DOMAIN available_functions) =>
        /\ pc \in {"dispatch", "raised"}
        /\ pc = "raised" => error \in {"KeyError", "JSONDecodeError"}
        /\ handlerLog = <<>>
        /\ Len(requests) = 1
        /\ final_message = None

C4_Witness ==
    /\ pc = "raised"
    /\ error = "KeyError"
    /\ function_name = "delete_bucket"
    /\ handlerLog = <<>>

\* C5: no deduplication: between calls, the handler has been executed once
\* for every call that resolved to a tool invocation, so after n calls that
\* each returned through the tool path it has been executed n times, equal
\* inputs and responses included.
C5_NoDeduplication ==
    /\ pc \in {"idle", "returned", "raised"} =>
           sideEffects = toolReturns + lateFailures
    /\ pc \in {"handler", "completion2"} =>
           sideEffects = toolReturns + lateFailures + 1
    /\ (pc = "returned" /\ toolReturns = nCalls) => sideEffects = nCalls

C5_Witness ==
    /\ pc = "returned"
    /\ repeated
    /\ nCalls = 2
    /\ toolReturns = 2
    /\ sideEffects = 2
    /\ function_name = "upload_file"
    /\ <<"a", "b">> \in s3_objects["b1"]

\* C6: the handler executed is the one registered under the name of the
\* response's invocation, and it is called once with exactly the mapping
\* decoded from the invocation's argument string.
C6_HandlerAndArguments ==
    /\ pc \in {"handler", "completion2"} => Len(handlerLog) = 1
    /\ (pc = "returned" /\ response_message.tool_calls # <<>>) =>
           Len(handlerLog) = 1
    /\ Len(handlerLog) >= 1 =>
           /\ Len(handlerLog) = 1
           /\ handlerLog[1].fn =
                  available_functions[response_message.tool_calls[1].function.name]
           /\ handlerLog[1].kwargs =
                  json_loads(response_message.tool_calls[1].function.arguments).val
           /\ json_loads(response_message.tool_calls[1].function.arguments).kind
                  = "dict"

C6_Witness ==
    /\ pc = "handler"
    /\ Len(response_message.tool_calls) = 2
    /\ response_message.tool_calls[1].function.name = "list_objects"
    /\ handlerLog = << [fn |-> "def list_objects",
                        kwargs |-> [bucket |-> "b1", prefix |-> <<"d", "/">>]] >>

\* C7: on the tool path the value returned is the content of the second
\* completion response, not the handler's output and not the content of the
\* first response.
C7_ReturnsSecondContent ==
    (pc = "returned" /\ response_message.tool_calls # <<>>) =>
        final_message = second_response.content

C7_Witness ==
    /\ pc = "returned"
    /\ response_message.tool_calls # <<>>
    /\ response_message.content = "Please clarify."
    /\ function_response = "[]"
    /\ final_message = "Here is the result."

\* C8: the first completion request of a call carries the conversation
\* [system turn, user turn], the full list of tool specs and the tool choice
\* "auto"; no request forces a tool.
C8_FirstRequest ==
    /\ Len(requests) >= 1 =>
           /\ DOMAIN requests[1] = {"model", "messages", "tools", "tool_choice"}
           /\ requests[1].messages =
                  << [role |-> "system", content |-> system_message(topic)],
                     [role |-> "user", content |-> user_input] >>
           /\ requests[1].tools = FunctionsDef
           /\ requests[1].tool_choice = "auto"
    /\ \A i \in DOMAIN requests :
           "tool_choice" \in DOMAIN requests[i] => requests[i].tool_choice = "auto"

C8_Witness ==
    /\ pc = "completion1"
    /\ Len(requests) = 1
    /\ user_input = "list my S3 buckets"
    /\ requests[1].messages[1].content =
           "Don't make assumptions about what values to plug into functions. Ask for clarification if a user request is ambiguous. If the user ask question not related to S3 bucket functions. response your scope is S3 bucket functions. only."
    /\ Len(requests[1].tools) = 5

\* C9: the second completion request carries neither a tool list nor a tool
\* choice, and the second response triggers no further handler execution.
C9_SecondRequestWithoutTools ==
    /\ Len(requests) >= 2 =>
           /\ DOMAIN requests[2] = {"model", "messages"}
           /\ Len(handlerLog) = 1
    /\ second_response.tool_calls = <<>>

C9_Witness ==
    /\ pc = "returned"
    /\ Len(requests) = 2
    /\ second_response.content = "Please clarify."
    /\ Len(handlerLog) = 1

\* C10: when the second completion call is issued the conversation is four
\* turns: the system turn and the user turn of the first request, the
\* assistant's tool-selection turn, and one tool-role turn.
C10_ConversationAtSecondCall ==
    Len(requests) >= 2 =>
        /\ Len(requests[2].messages) = 4
        /\ requests[2].messages[1] = requests[1].messages[1]
        /\ requests[2].messages[2] = requests[1].messages[2]
        /\ requests[2].messages[1].role = "system"
        /\ requests[2].messages[2].role = "user"
        /\ requests[2].messages[3] = response_message
        /\ requests[2].messages[3].role = "assistant"
        /\ requests[2].messages[3].tool_calls # <<>>
        /\ requests[2].messages[4].role = "tool"
        /\ Len(requests[1].messages) = 2

C10_Witness ==
    /\ pc = "completion2"
    /\ Len(requests) = 2
    /\ Len(requests[2].messages) = 4
    /\ requests[2].messages[4].content =
           "{\"status\": \"success\", \"source\": \"a\", \"bucket\": \"b1\", \"key\": \"ab\"}"
    /\ <<"a", "b">> \in s3_objects["b1"]

\* C11: the tool-role turn carries the string the executed handler returned,
\* unchanged, and the identifier of the invocation whose name and arguments
\* were used for the handler call.
C11_ToolTurnContentAndId ==
    Len(messages) >= 4 =>
        /\ messages[4].role = "tool"
        /\ messages[4].content = function_response
        /\ \E site \in Sites, service \in Services :
             LET got == HandlerCall(site, service)
             IN /\ got.raised = ""
                /\ function_response =
                       json_text(available_functions[function_name], got.doc)
        /\ Len(handlerLog) = 1
        /\ \E i \in DOMAIN response_message.tool_calls :
             LET call == response_message.tool_calls[i]
             IN /\ call.id = messages[4].tool_call_id
                /\ call.function.name = function_name
                /\ call.function.name \in DOMAIN available_functions
                /\ handlerLog[1].fn = available_functions[call.function.name]
                /\ json_loads(call.function.arguments) = function_args
                /\ handlerLog[1].kwargs = function_args.val

C11_Witness ==
    /\ pc = "completion2"
    /\ Len(response_message.tool_calls) = 2
    /\ function_name = "search_s3_objects"
    /\ messages[4] =
           [role |-> "tool",
            content |-> "[{\"Bucket\": \"b1\", \"Object\": {\"Key\": \"a\", \"LastModified\": \"2023-06-01T10:00:00\"}}]",
            tool_call_id |-> "call_1"]

\* C12: every tool invocation of the first response is consumed exactly once:
\* its handler is executed and a tool-role turn with its identifier is in the
\* conversation sent with the second request.
C12_EveryInvocationConsumed ==
    Len(requests) >= 2 =>
        LET turns == requests[2].messages
            calls == turns[3].tool_calls
        IN /\ Len(handlerLog) = Len(calls)
           /\ \A i \in DOMAIN calls :
                \E j \in 4..Len(turns) :
                    /\ turns[j].role = "tool"
                    /\ turns[j].tool_call_id = calls[i].id

\* C13: when the handler raises, the call raises: the handler was entered
\* once, no tool-role turn was appended, no second completion call was
\* issued and no value is returned.
C13_HandlerFailurePropagates ==
    error \in HandlerExceptions =>
        /\ pc = "raised"
        /\ Len(handlerLog) = 1
        /\ trace = << "completion_call", "completion_return", "handler_call" >>
        /\ Len(messages) = 2
        /\ Len(requests) = 1
        /\ function_response = ""
        /\ final_message = None

C13_Witness ==
    /\ pc = "raised"
    /\ error = "ContentTooShortError"
    /\ function_name = "upload_file"
    /\ Len(handlerLog) = 1
    /\ <<"a">> \in DOMAIN up_files
    /\ up_files[<<"a">>] = Served(<<"h", ":", "/", "a">>)
    /\ up_uploaded = {}

\* C14: when a completion call fails (the service raises, or its response
\* has no choice), the call raises and the completion call is not issued
\* again: after a failure of the first call no handler was executed, after a
\* failure of the second call exactly one handler was executed (it stays
\* counted and what it uploaded stays in the store), and no value is
\* returned.
C14_CompletionFailurePropagates ==
    /\ error \in CompletionFailures =>
           LET returned == IF error = "IndexError"
                           THEN << "completion_return" >> ELSE << >>
           IN /\ pc = "raised"
              /\ final_message = None
              /\ \/ /\ trace = << "completion_call" >> \o returned
                    /\ Len(requests) = 1
                    /\ handlerLog = <<>>
                 \/ /\ trace = << "completion_call", "completion_return",
                                  "handler_call", "handler_return",
                                  "completion_call" >> \o returned
                    /\ Len(requests) = 2
                    /\ Len(handlerLog) = 1
                    /\ sideEffects >= 1
                    /\ sideEffects = toolReturns + lateFailures
                    /\ function_name = "upload_file" =>
                           function_args.val.key
                               \in s3_objects[function_args.val.bucket]
    /\ \A i, j \in DOMAIN requests : i < j => requests[i] # requests[j]

C14_Witness ==
    /\ pc = "raised"
    /\ error = "IndexError"
    /\ Len(requests) = 2
    /\ Len(trace) = 6
    /\ Len(handlerLog) = 1
    /\ sideEffects = 1
    /\ function_name = "upload_file"
    /\ <<"a", "b">> \in s3_objects["b1"]
    /\ \E u \in up_uploaded : u.Key = <<"a", "b">>

\* C15: no state is carried between calls: the first request of every call,
\* whatever the earlier calls did, holds the system turn and that call's own
\* user turn only, and the tool specs and the handler table are those of the
\* start.
C15_NoStateBetweenCalls ==
    /\ functions = FunctionsDef
    /\ available_functions = AvailableFunctionsDef
    /\ pc = "completion1" =>
           /\ Len(messages) = 2
           /\ messages[1].role = "system"
           /\ messages[2] = [role |-> "user", content |-> user_input]
           /\ requests = << [model |-> GPT_MODEL, messages |-> messages,
                             tools |-> FunctionsDef, tool_choice |-> "auto"] >>
           /\ handlerLog = <<>>
           /\ response_message = NoMessage /\ second_response = NoMessage
           /\ function_response = "" /\ final_message = None /\ error = ""

C15_Witness ==
    /\ pc = "completion1"
    /\ nCalls = 2
    /\ toolReturns = 1
    /\ Len(messages) = 2

\* C16: the registry is a bijection: the tool names declared in `functions`
\* are exactly the keys of `available_functions`, each declared once, before
\* and after any sequence of calls.
C16_RegistryBijection ==
    /\ {functions[i].function.name : i \in DOMAIN functions}
           = DOMAIN available_functions
    /\ \A i, j \in DOMAIN functions :
           functions[i].function.name = functions[j].function.name => i = j
    /\ Cardinality(DOMAIN available_functions) = Len(functions)

C16_Witness ==
    /\ pc = "returned"
    /\ nCalls >= 2
    /\ toolReturns >= 1
    /\ Len(functions) = 5
    /\ DOMAIN available_functions =
           {"list_buckets", "list_objects", "download_file", "upload_file",
            "search_s3_objects"}

\* C17: when the argument string of the dispatched invocation cannot be
\* decoded as JSON, the call raises before any handler is executed: no
\* handler execution, one completion call, no value returned.
C17_UndecodableArgumentsRaise ==
    (/\ Len(trace) >= 2
     /\ response_message.tool_calls # <<>>
     /\ json_loads(response_message.tool_calls[1].function.arguments).kind
            = "JSONDecodeError") =>
        /\ pc \in {"dispatch", "raised"}
        /\ pc = "raised" => error = "JSONDecodeError"
        /\ handlerLog = <<>>
        /\ trace = << "completion_call", "completion_return" >>
        /\ Len(requests) = 1
        /\ final_message = None

C17_Witness ==
    /\ pc = "raised"
    /\ error = "JSONDecodeError"
    /\ function_name = "list_buckets"
    /\ handlerLog = <<>>

(***************************************************************************)
(* Properties of the S3 helpers.                                           *)
(***************************************************************************)

\* C18: search_s3_objects with exact_match true returns exactly the listed
\* objects whose file name (the key without its folder path) equals
\* search_name, compared case-insensitively.
C18_ExactMatchByFileName ==
    (/\ s3_pc = "done"
     /\ s3_call.fn = "search_s3_objects"
     /\ s3_call.exact_match
     /\ "json" \in DOMAIN s3_result) =>
        LET results == s3_result.json
            searched == IF s3_call.bucket = None
                        THEN {s3_buckets[i] : i \in DOMAIN s3_buckets}
                        ELSE {s3_call.bucket}
            Listed(b) == LET l == list_objects(b, s3_call.prefix).json
                         IN {l[i].Key : i \in DOMAIN l}
        IN {<<results[i].Bucket, results[i].Object.Key>> : i \in DOMAIN results}
           = {p \in searched \X AllKeys :
                /\ p[2] \in Listed(p[1])
                /\ str_lower(basename(p[2])) = str_lower(s3_call.search_name)}

\* C19: search_s3_objects with a bucket lists only that bucket and tags every
\* result with it; without a bucket it lists every bucket of list_buckets
\* once and tags each result with the bucket that holds the object; the
\* result is empty when no key matches.
C19_SearchedBuckets ==
    (/\ s3_pc = "done"
     /\ s3_call.fn = "search_s3_objects"
     /\ "json" \in DOMAIN s3_result) =>
        LET results == s3_result.json
            given == s3_call.bucket # None
            searched == IF given
                        THEN {s3_call.bucket}
                        ELSE {s3_buckets[i] : i \in DOMAIN s3_buckets}
            listings == SelectSeq(s3_requests,
                                  LAMBDA r : r.op = "list_objects_v2")
        IN /\ given =>
                /\ s3_requests = << [op |-> "list_objects_v2",
                                     Bucket |-> s3_call.bucket,
                                     Prefix |-> s3_call.prefix] >>
           /\ ~given =>
                /\ Len(s3_requests) = Len(s3_buckets) + 1
                /\ s3_requests[1].op = "list_buckets"
                /\ \A i \in DOMAIN s3_buckets :
                       /\ listings[i].Bucket = s3_buckets[i]
                       /\ listings[i].Prefix = s3_call.prefix
           /\ \A i \in DOMAIN results :
                /\ results[i].Bucket \in searched
                /\ results[i].Object.Key \in s3_objects[results[i].Bucket]
                /\ StartsWith(results[i].Object.Key, s3_call.prefix)
                /\ str_contains(str_lower(s3_call.search_name),
                                str_lower(results[i].Object.Key))
           /\ (\A b \in searched : \A k \in s3_objects[b] :
                  ~str_contains(str_lower(s3_call.search_name), str_lower(k)))
                => results = <<>>

C19_Witness ==
    /\ s3_pc = "done"
    /\ s3_call.fn = "search_s3_objects"
    /\ s3_call.bucket = None
    /\ s3_call.search_name = <<"A">>
    /\ Len(s3_requests) = 3
    /\ "json" \in DOMAIN s3_result
    /\ Len(s3_result.json) = 2
    /\ s3_result.json[1].Bucket = "b1"
    /\ s3_result.json[2].Bucket = "b2"

\* C20: list_objects returns every object stored in the bucket under the
\* prefix, however many there are.
C20_ListObjectsReturnsAll ==
    (/\ s3_pc = "done"
     /\ s3_call.fn = "list_objects"
     /\ "json" \in DOMAIN s3_result) =>
        {s3_result.json[i].Key : i \in DOMAIN s3_result.json}
        = {k \in s3_objects[s3_call.bucket] : StartsWith(k, s3_call.prefix)}

(***************************************************************************)
(* Properties of upload_file.                                              *)
(***************************************************************************)

\* C21: upload_file with is_remote_url true first fetches the URL into the
\* local file named after it and only then uploads that file; when the fetch
\* fails nothing is uploaded; with is_remote_url false nothing is fetched and
\* the source itself is uploaded; the success status is returned only after
\* the upload returned without raising.
C21_FetchBeforeUpload ==
    LET fetches == SelectSeq(up_trace, LAMBDA e : e.op = "urlretrieve")
        uploads == SelectSeq(up_trace, LAMBDA e : e.op = "upload_file")
    IN /\ (up_call.is_remote_url /\ uploads # <<>>) =>
            /\ Len(up_trace) = 2
            /\ up_trace[1] = UploadEvent("urlretrieve", up_call.source,
                                         basename(up_call.source), "", <<>>, TRUE)
            /\ up_trace[2].op = "upload_file"
            /\ up_trace[2].Filename = up_trace[1].Filename
            /\ up_trace[2].Bucket = up_call.bucket
            /\ up_trace[2].Key = up_call.key
            /\ up_trace[2].ok =>
                   up_uploaded = { [Bucket |-> up_call.bucket,
                                    Key |-> up_call.key,
                                    Body |-> Served(up_call.source)] }
       /\ (\E i \in DOMAIN fetches : ~fetches[i].ok) =>
            /\ uploads = <<>>
            /\ up_uploaded = {}
            /\ up_pc = "raised"
       /\ ~up_call.is_remote_url =>
            /\ fetches = <<>>
            /\ \A i \in DOMAIN uploads :
                   uploads[i].Filename = up_call.source
       /\ up_pc = "returned" =>
            /\ up_trace # <<>>
            /\ up_trace[Len(up_trace)].op = "upload_file"
            /\ up_trace[Len(up_trace)].ok
            /\ Len(uploads) = 1
       /\ "json" \in DOMAIN up_result =>
            /\ up_pc = "returned"
            /\ up_result.json.status = "success"

C21_Witness ==
    /\ up_pc = "returned"
    /\ up_call.is_remote_url
    /\ up_call.source = <<"h", ":", "/", "a">>
    /\ <<"a">> \in DOMAIN up_files
    /\ Len(up_trace) = 2
    /\ up_result = json_dumps([status |-> "success", source |-> <<"a">>,
                               bucket |-> "b1", key |-> <<"d", "/", "b">>])
    /\ <<"d", "/", "b">> \in s3_objects["b1"]

(***************************************************************************)
(* Properties of the web-search notebook.                                  *)
(***************************************************************************)

\* C22: search returns a list in every case (the items, or an empty list
\* when the response has no items field, when no item passes the site filter
\* or when the request fails), so that the caller's loop over the result
\* never fails.
C22_SearchReturnsList ==
    /\ web_pc \in {"searched", "listed", "retrieve", "summarize", "done"} =>
           search_items # NotGiven
    /\ web_error # "TypeError"

\* C23: when the response has items, search with a site_filter returns
\* exactly the items whose link contains site_filter, in the order of the
\* response and unmodified; without a site_filter it returns all items.
C23_SiteFilter ==
    (/\ web_pc \notin {"off", "idle"}
     /\ RequestFailure(web_response) = ""
     /\ "items" \in DOMAIN web_response.body) =>
        /\ search_items # NotGiven
        /\ LET ret == ValueOf(search_items)
               items == web_response.body.items
               Pos(x) == CHOOSE k \in DOMAIN items : items[k] = x
           IN IF web_call.site_filter = NotGiven
              THEN ret = items
              ELSE LET f == ValueOf(web_call.site_filter)
                   IN /\ \A i \in DOMAIN ret :
                           /\ \E k \in DOMAIN items : items[k] = ret[i]
                           /\ str_contains(f, ret[i].link)
                      /\ \A k \in DOMAIN items :
                           str_contains(f, items[k].link) =>
                               \E i \in DOMAIN ret : ret[i] = items[k]
                      /\ \A i, j \in DOMAIN ret :
                           i < j => Pos(ret[i]) < Pos(ret[j])

C23_Witness ==
    /\ web_pc = "searched"
    /\ web_call.site_filter = Given(<<"o", "/">>)
    /\ web_response.body = [kind |-> "customsearch#search",
                            items |-> << Item2, Item3, Item1 >>]
    /\ search_items = Given(<< Item2, Item1 >>)

\* C24: a failed HTTP request (requests.get raises, or the response has an
\* error status) never leaves search or retrieve_content as an exception:
\* search returns an empty list, retrieve_content returns None, and the
\* caller goes on.
C24_RequestFailureHandled ==
    /\ web_error \notin {"ConnectionError", "Timeout", "HTTPError"}
    /\ (web_pc \notin {"off", "idle"} /\ RequestFailure(web_response) # "") =>
           /\ search_items = Given(<<>>)
           /\ web_pc \in {"searched", "listed", "done"}
    /\ (web_log # <<>> /\ ~web_log[Len(web_log)].ok
                      /\ web_log[Len(web_log)].op = "get") =>
           /\ web_content = NotGiven
           /\ web_pc \in {"retrieve", "done"}
           /\ web_idx = web_log[Len(web_log)].idx + 1

C24_Witness ==
    /\ web_pc = "done"
    /\ web_response.exc = "Timeout"
    /\ search_items = Given(<<>>)
    /\ results_list = <<>>

\* C25: get_search_results goes through the items in input order and
\* requests each item's page once; an item whose page could not be retrieved
\* gets no summarization call and no entry, and the loop goes on with the
\* next item; an item whose page was retrieved gets one summarization call
\* and one entry; the result has at most as many entries as the input.
C25_SequentialProcessing ==
    web_pc \in {"retrieve", "summarize", "done"} =>
        LET input == ValueOf(search_items)
            gets == SelectSeq(web_log, LAMBDA e : e.op = "get")
            Calls(k) == {j \in DOMAIN web_log :
                           web_log[j].op = "summarize" /\ web_log[j].idx = k}
            Entries(k) == {j \in DOMAIN results_list :
                             results_list[j].link = input[k].link}
            Finished(k) == k < web_idx \/ web_pc = "done"
        IN /\ Len(gets) <= Len(input)
           /\ \A k \in DOMAIN gets :
                /\ gets[k].idx = k
                /\ gets[k].arg = input[k].link
           /\ web_pc = "done" => Len(gets) = Len(input)
           /\ web_pc = "retrieve" => Len(gets) = web_idx - 1
           /\ \A j \in DOMAIN web_log :
                web_log[j].op = "summarize" =>
                    /\ j > 1
                    /\ web_log[j - 1].op = "get"
                    /\ web_log[j - 1].ok
                    /\ web_log[j - 1].idx = web_log[j].idx
           /\ \A k \in DOMAIN gets :
                /\ ~gets[k].ok => (Calls(k) = {} /\ Entries(k) = {})
                /\ (gets[k].ok /\ Finished(k)) =>
                       /\ Cardinality(Calls(k)) = 1
                       /\ Cardinality(Entries(k)) = 1
           /\ Len(results_list) <= Len(input)

C25_Witness ==
    /\ web_pc = "done"
    /\ Len(ValueOf(search_items)) = 3
    /\ Len(web_log) = 5
    /\ ~web_log[3].ok
    /\ Len(results_list) = 2

\* C26: the order of an entry is the 1-based position of its item in the
\* input, not its position in the output: orders increase strictly along
\* the output and leave out the items whose page could not be retrieved.
C26_OrderIsInputPosition ==
    web_pc \in {"retrieve", "summarize", "done"} =>
        LET input == ValueOf(search_items)
        IN /\ \A j \in DOMAIN results_list :
                /\ results_list[j].order \in DOMAIN input
                /\ results_list[j].link = input[results_list[j].order].link
           /\ \A i, j \in DOMAIN results_list :
                i < j => results_list[i].order < results_list[j].order
           /\ \A n \in DOMAIN web_log :
                (web_log[n].op = "get" /\ ~web_log[n].ok) =>
                    \A j \in DOMAIN results_list :
                        results_list[j].order # web_log[n].idx

C26_Witness ==
    /\ web_pc = "done"
    /\ Len(ValueOf(search_items)) = 3
    /\ ~web_log[1].ok
    /\ Len(results_list) = 2
    /\ results_list[1].order = 2
    /\ results_list[2].order = 3

\* C27: every entry of the list get_search_results builds has a summary:
\* none is absent, also when the summarization call of the page failed.
C27_EverySummaryPresent ==
    \A j \in DOMAIN results_list : results_list[j].Summary # None

====
